---- MODULE Spec2Model ----
(***************************************************************************)
(* Key store (app/database.py, class KeyManager) and the proxy attempt    *)
(* loop (app/proxy.py, proxy) of ai-api-middleware.                        *)
(*                                                                         *)
(* Time.  Every timestamp the store writes is                              *)
(* datetime.now(timezone.utc).isoformat() (or that plus a timedelta) and   *)
(* is compared as TEXT by SQLite.  Such strings have a fixed layout, and   *)
(* '+' < '.' < digits, so their text order is the order of the instants;   *)
(* the column default '1970-01-01T00:00:00Z' sorts before all of them.     *)
(* A timestamp is therefore modelled by an integer, the epoch default by   *)
(* Epoch.  Every store operation that reads the clock runs under the       *)
(* store lock and commits to SQLite before it returns, so two readings of  *)
(* the microsecond clock are modelled as strictly increasing: a reading    *)
(* is at least the previous one plus 1, and Tick lets more time pass.      *)
(***************************************************************************)
EXTENDS Integers, Sequences, FiniteSets, Bags, TLC

\* ------------------------------------------------------------ bounds
\* Largest number of rows the keys table holds in a run.
MaxKeys == 2
\* Largest number of store operations in a run of the store specification.
MaxOps == 2
\* Largest number of get_next_key and update_key_stats calls in a run of the
\* traffic specification.
MaxTraffic == 3
\* Largest number of get_next_key calls in a run of the rotation specification.
MaxCalls == 5
\* Largest number of times a run lets a rest period pass between operations.
MaxTicks == 1
\* Largest number of update_key_stats and remove_key calls in a run of the
\* statistics specification.
MaxStatCalls == 2
\* Largest number of store operations in a run of the KPI specification.
MaxKpiOps == 3
\* Largest value of the max_retries setting.
\* Read errors of one upstream stream.
MaxReadErrors == 3
MaxBatch == 2
MaxRetries == 2
\* Largest value of the retry_total setting.
MaxRetryTotal == 1

\* ------------------------------------------------- program constants
\* last_rotated_at column default, '1970-01-01T00:00:00Z'.
Epoch == 0
\* Seconds a model listing stays in _model_cache (setting cache_timeout).
ModelCacheTimeout == 300
\* Seconds a credential rests after a 429.
RestSeconds == 60
\* Seconds a credential rests after bulk_update_status(.., 'Resting').
BulkRestSeconds == 3600
\* Shortest key_value add_key and bulk_import_keys accept.
MinKeyLen == 10
\* Synthetic error code the proxy reports for a transport exception.
NetworkErrorCode == 599

\* Seconds a cached result is served, KeyManager._cache_ttl.
CacheTtl == 10
\* Weights of the success rate and of the latency score in the KPI, the
\* average latency (ms) from which the latency score is 0, and the KPI of a
\* credential without requests today.
SuccessWeight == 70
LatencyWeight == 30
LatencyCeilingMs == 5000
IdleKpi == 100

\* Seconds in a day: daily_stats rows are keyed by the UTC date.
SecondsPerDay == 86400

\* SQL NULL in the disabled_until column.
NULL == -1
\* Python None returned by get_next_key, and "no argument given".
None == 0

\* ------------------------------------------------------------ inputs
\* Amounts of time that pass between two operations: the two rest periods.
TickSteps == {RestSeconds, BulkRestSeconds}

\* key_value inputs: empty, and lengths 9 (invalid), 10 and 11.
KeyValues == {"", "key-9-chr", "key-10-chr", "key-11-char"}

\* Secrets the GEMINI_API_KEYS environment variable seeds the table with.
EnvKeys == <<"env-key-00001", "env-key-00002", "env-key-00003", "env-key-00004">>

\* status inputs of bulk_update_status; "" stands for any unknown status.
StatusInputs == {"", "Healthy", "Disabled", "Resting"}

\* <<new_value, new_status, other>> inputs of update_key: "" is an argument
\* not given, other says that a new_name or a new_note is given.
UpdateInputs ==
    {<<"", "", FALSE>>, <<"", "", TRUE>>,
     <<"", "Healthy", FALSE>>, <<"", "Disabled", FALSE>>, <<"", "Resting", FALSE>>,
     <<"", "Paused", FALSE>>,
     <<"key-10-chr", "", FALSE>>, <<"key-11-char", "", FALSE>>,
     <<"key-10-chr", "Disabled", FALSE>>,
     <<"env-key-00001", "Disabled", FALSE>>}

\* A request path is the sequence of its '/'-separated segments, and a segment
\* the sequence of its ':'-separated parts (at most two of them here).
GeminiPath == <<<<"v1beta">>, <<"models">>, <<"gemini-pro", "generateContent">>>>
Paths ==
    {GeminiPath,
     <<<<"v1beta">>, <<"models">>>>,
     <<<<"v1">>, <<"chat">>, <<"completions">>>>,
     <<<<"v1beta">>, <<"openai">>, <<"chat">>, <<"completions">>>>,
     <<<<"v1beta">>, <<"openai">>, <<"models">>>>,
     <<<<"v1">>, <<"models">>>>}

\* Request bodies: the bytes, whether they hold the text "model" in double
\* quotes, whether they parse as a JSON object, and the object's model field
\* (<< >> when it has none).
NoData == [text |-> "", quoted |-> FALSE, json |-> FALSE, model |-> << >>]
RequestBodies ==
    {NoData,
     [text |-> "{model: gpt-4}", quoted |-> TRUE, json |-> TRUE, model |-> <<"gpt-4">>],
     [text |-> "{input: hello}", quoted |-> FALSE, json |-> TRUE, model |-> << >>],
     [text |-> "model is not json", quoted |-> TRUE, json |-> FALSE, model |-> << >>]}

\* The headers a client may send, each value as its space-separated words.
\* Host comes with every request.
ClientHeaders ==
    [n \in {"Host", "Authorization", "X-Goog-Api-Key", "x-goog-api-key", "Content-Type", "X-Custom"} |->
        CASE n = "Host" -> <<"middleware.local">>
          [] n = "Authorization" -> <<"Bearer", "client-token">>
          [] n = "X-Goog-Api-Key" -> <<"client-key">>
          [] n = "x-goog-api-key" -> <<"client-key-2">>
          [] n = "Content-Type" -> <<"application/json">>
          [] OTHER -> <<"custom">>]
InboundHeaders ==
    {[n \in s |-> ClientHeaders[n]] : s \in {x \in SUBSET DOMAIN ClientHeaders : "Host" \in x}}

\* The headers of the requests whose headers are not looked at.
PlainHeaders == [n \in {"Host", "Content-Type"} |-> ClientHeaders[n]]

\* Inbound requests in flight together.
Requests == {1, 2}

\* <<success, model_name, error_code, tokens_in, tokens_out, latency_ms>>
\* arguments of update_key_stats.
StatCalls ==
    {<<TRUE, "gemini-pro", None, 10, 20, 100>>,
     <<TRUE, "gemini-flash", None, 0, 0, 100>>,
     <<FALSE, "gemini-pro", 429, 0, 0, 100>>,
     <<FALSE, "gemini-flash", 500, 0, 0, 40>>,
     <<FALSE, "gemini-pro", None, 0, 0, 0>>}

\* <<success, error_code, latency_ms>> of the update_key_stats calls whose
\* effect on the KPI is looked at.
KpiCalls == {<<TRUE, None, 0>>, <<TRUE, None, 2500>>, <<FALSE, 500, 1>>, <<FALSE, 500, 9000>>}

\* Threads that call update_key_stats together.
Threads == {1, 2}

\* What the upstream does with one HTTP request: a status code, or
\* TransportError when the connection fails.
TransportError == 0
UpstreamAnswers == {200, 401, 429, 503, TransportError}

\* Response bodies: not JSON, JSON without token counts, with an OpenAI-style
\* usage object, with a native usageMetadata object, and with both.  NoBody
\* is the body of a call that got no success response.
NoBody == [json |-> FALSE, usage |-> << >>, usageMetadata |-> << >>, text |-> ""]
Bodies ==
    {[json |-> FALSE, usage |-> << >>, usageMetadata |-> << >>, text |-> "plain"],
     [json |-> TRUE, usage |-> << >>, usageMetadata |-> << >>, text |-> "{}"],
     [json |-> TRUE, usage |-> <<7, 9>>, usageMetadata |-> << >>, text |-> "{usage}"],
     [json |-> TRUE, usage |-> << >>, usageMetadata |-> <<3, 4>>, text |-> "{usageMetadata}"],
     [json |-> TRUE, usage |-> <<7, 9>>, usageMetadata |-> <<3, 4>>, text |-> "{both}"]}

\* The body of the responses whose token counts are not looked at.
PlainBody == [json |-> TRUE, usage |-> << >>, usageMetadata |-> << >>, text |-> "{}"]

\* (success, error_code) pairs update_key_stats is called with.
Outcomes ==
    {<<TRUE, None>>, <<FALSE, 429>>, <<FALSE, 400>>, <<FALSE, 401>>,
     <<FALSE, 403>>, <<FALSE, 500>>, <<FALSE, NetworkErrorCode>>}

\* The outcomes with a status transition of their own: success, 429 and 401.
TrafficOutcomes == {<<TRUE, None>>, <<FALSE, 429>>, <<FALSE, 401>>}

Statuses == {"Healthy", "Resting", "Disabled"}

\* model_name of the calls whose statistics are not looked at.
DefaultModel == "gemini-pro"

VARIABLES
    keys,      \* the keys table: id -> row
    nextId,    \* AUTOINCREMENT counter of keys.id
    now,       \* the latest clock reading
    nops,      \* store operations performed so far
    nticks,    \* rest periods let pass so far
    last,      \* the latest store operation: its name, arguments and result
    prev,      \* the keys table as it was before the latest store operation
    run,       \* consecutive get_next_key() calls with no exclusions
    settings,  \* the settings table, as far as the proxy reads it
    req,       \* the inbound requests: request -> position and locals of proxy()
    daily,     \* the daily_stats table: its rows in insertion order
    log,       \* the update_key_stats calls that returned, as a bag
    lock,      \* the thread that holds the lock of app.proxy.key_manager, or None
    thr,       \* the threads inside a store operation of the proxy:
               \* thread -> position and locals
    api_lock,  \* the thread that holds the lock of app.api_routes.key_manager,
               \* or None
    cache,     \* KeyManager._cache of app.api_routes.key_manager:
               \* cache key -> time and result of the computation
    model_cache \* _model_cache of app.proxy: cache key -> time and listing

storeVars == <<keys, nextId, now, last, prev, run, daily>>
lockVars == <<log, lock, thr, api_lock>>
proxyVars == <<settings, req, model_cache>>
countVars == <<nops, nticks>>
vars == <<keys, nextId, now, nops, nticks, last, prev, run, settings, req,
          daily, log, lock, thr, api_lock, cache, model_cache>>

\* NewRow whose last_rotated_at is later than the column default.
NewRowStamped(key_value) ==
    [key_value |-> key_value, status |-> "Healthy",
     disabled_until |-> NULL, last_rotated_at |-> Epoch + 1]

\* ------------------------------------------------------------- rows
NewRow(key_value) ==
    [key_value |-> key_value, status |-> "Healthy",
     disabled_until |-> NULL, last_rotated_at |-> Epoch]

Ids(ks) == DOMAIN ks

ValueExists(ks, v) == \E k \in Ids(ks) : ks[k].key_value = v

Insert(ks, id, key_value) ==
    [k \in Ids(ks) \cup {id} |-> IF k = id THEN NewRow(key_value) ELSE ks[k]]

\* ToSet that keeps the last element only.
ToSetLastOnly(seq) == IF seq = << >> THEN {} ELSE {seq[Len(seq)]}

\* The ids of the list exclude_ids, as the NOT IN clause uses them.
ToSet(seq) == {seq[i] : i \in 1..Len(seq)}

NoOp == [op |-> "init", ids |-> {}, ok |-> TRUE, code |-> None,
         id |-> None, status |-> "", msg |-> "", at |-> Epoch, result |-> << >>]

\* The empty _cache dictionary; _invalidate_cache() leaves it so.
NoCache == << >>

NoRun == [base |-> << >>, at |-> Epoch, ids |-> << >>]

\* A thread outside update_key_stats.
IdleThread == [pc |-> "idle", args |-> << >>, today |-> 0, maps |-> << >>,
               now_iso |-> Epoch, key_info |-> None]

\* --------------------------------------------------- get_next_key
\* UPDATE keys SET status='Healthy', disabled_until=NULL
\*   WHERE status='Resting' AND disabled_until < now
\* (a comparison with NULL is not true in SQL).
Expired(row, t) ==
    /\ row.status = "Resting"
    /\ row.disabled_until # NULL
    /\ row.disabled_until < t

\* Heal that forgets to clear disabled_until.
HealKeepsUntil(ks, t) ==
    [k \in Ids(ks) |->
        IF Expired(ks[k], t) THEN [ks[k] EXCEPT !.status = "Healthy"] ELSE ks[k]]

Heal(ks, t) ==
    [k \in Ids(ks) |->
        IF Expired(ks[k], t)
        THEN [ks[k] EXCEPT !.status = "Healthy", !.disabled_until = NULL]
        ELSE ks[k]]

\* Candidates without the status condition.
CandidatesAnyStatus(ks, exclude_ids) == Ids(ks) \ exclude_ids

\* Candidates without the NOT IN clause.
CandidatesAnyId(ks, exclude_ids) ==
    {k \in Ids(ks) : ks[k].status = "Healthy"}

\* WHERE status = 'Healthy' AND id NOT IN (exclude_ids)
Candidates(ks, exclude_ids) ==
    {k \in Ids(ks) : ks[k].status = "Healthy" /\ k \notin exclude_ids}

\* SelectKey with ORDER BY id.
SelectKeyLowestId(ks, exclude_ids) ==
    LET c == Candidates(ks, exclude_ids) IN
    IF c = {} THEN None ELSE CHOOSE k \in c : \A j \in c : k <= j

\* SelectKey with ORDER BY last_rotated_at DESC.
SelectKeyNewest(ks, exclude_ids) ==
    LET c == Candidates(ks, exclude_ids) IN
    IF c = {} THEN None
    ELSE CHOOSE k \in c :
            \A j \in c :
                \/ ks[k].last_rotated_at > ks[j].last_rotated_at
                \/ ks[k].last_rotated_at = ks[j].last_rotated_at /\ k <= j

\* ORDER BY last_rotated_at ASC LIMIT 1: rows of equal last_rotated_at come
\* out in rowid order.
SelectKey(ks, exclude_ids) ==
    LET c == Candidates(ks, exclude_ids) IN
    IF c = {} THEN None
    ELSE CHOOSE k \in c :
            \A j \in c :
                \/ ks[k].last_rotated_at < ks[j].last_rotated_at
                \/ ks[k].last_rotated_at = ks[j].last_rotated_at /\ k <= j

\* Stamp without the WHERE clause: every row gets the time.
StampAll(ks, id, t) == IF id = None THEN ks ELSE [k \in Ids(ks) |-> [ks[k] EXCEPT !.last_rotated_at = t]]

\* Stamp that writes nothing.
StampNothing(ks, id, t) == ks

\* UPDATE keys SET last_rotated_at = now WHERE id = key_info['id']
Stamp(ks, id, t) ==
    IF id = None THEN ks ELSE [ks EXCEPT ![id].last_rotated_at = t]

\* The table after get_next_key(exclude_ids) at time t.
KeysAfterGetNextKey(ks, exclude_ids, t) ==
    Stamp(Heal(ks, t), SelectKey(Heal(ks, t), exclude_ids), t)

\* What get_next_key(exclude_ids) returns at time t: a key id or None.
GetNextKeyResult(ks, exclude_ids, t) ==
    SelectKey(Heal(ks, t), exclude_ids)

\* Bookkeeping of a run of get_next_key() calls without exclusions: it
\* records the table the first call found, the time of that call and the
\* ids returned, lasts for N + 1 calls, and any other store operation ends
\* it.
RunAfter(ks, exclude_ids, id, t, restart) ==
    IF exclude_ids # {} THEN NoRun
    ELSE IF run.ids # << >> /\ Len(run.ids) <= Cardinality(Ids(ks)) /\ ~restart
         THEN [run EXCEPT !.ids = Append(run.ids, id)]
    ELSE [base |-> ks, at |-> t, ids |-> <<id>>]

GetNextKeyStep(exclude_ids, restart) ==
    LET t == now + 1
        id == GetNextKeyResult(keys, exclude_ids, t) IN
    /\ now' = t
    /\ keys' = KeysAfterGetNextKey(keys, exclude_ids, t)
    /\ prev' = keys
    /\ last' = [NoOp EXCEPT !.op = "get_next_key", !.ids = exclude_ids, !.id = id,
                            !.at = t,
                            !.status = IF id = None THEN ""
                                       ELSE Heal(keys, t)[id].status]
    /\ run' = RunAfter(keys, exclude_ids, id, t, restart)
    /\ UNCHANGED <<nextId, daily>>

get_next_key(exclude_ids, restart) ==
    /\ nops' = nops + 1
    /\ GetNextKeyStep(exclude_ids, restart)
    /\ UNCHANGED <<nticks, proxyVars, lockVars, cache>>

\* ----------------------------------------------- update_key_stats
\* StatusAfterOutcome with 403 left out of the codes that disable.
StatusAfterOutcomeNo403(row, success, error_code, t) ==
    IF success /\ error_code = None
    THEN IF row.status = "Resting"
         THEN [row EXCEPT !.status = "Healthy", !.disabled_until = NULL]
         ELSE row
    ELSE IF error_code = 429
    THEN [row EXCEPT !.status = "Resting", !.disabled_until = t + RestSeconds]
    ELSE IF error_code \in {400, 401}
    THEN [row EXCEPT !.status = "Disabled", !.disabled_until = NULL]
    ELSE row

\* The status part of update_key_stats(key_id, success, _, error_code).
StatusAfterOutcome(row, success, error_code, t) ==
    IF success /\ error_code = None
    THEN IF row.status = "Resting"
         THEN [row EXCEPT !.status = "Healthy", !.disabled_until = NULL]
         ELSE row
    ELSE IF error_code = 429
    THEN [row EXCEPT !.status = "Resting", !.disabled_until = t + RestSeconds]
    ELSE IF error_code \in {400, 401, 403}
    THEN [row EXCEPT !.status = "Disabled", !.disabled_until = NULL]
    ELSE row

KeysAfterOutcome(ks, key_id, success, error_code, t) ==
    IF key_id \in Ids(ks)
    THEN [ks EXCEPT ![key_id] = StatusAfterOutcome(ks[key_id], success, error_code, t)]
    ELSE ks

\* The SELECT ... fetchone()['status'] of the success path finds no row and
\* the call raises TypeError before it writes anything.
Raises(ks, key_id, success, error_code) ==
    success /\ error_code = None /\ key_id \notin Ids(ks)

\* ------------------------------------- update_key_stats: daily_stats
\* today_str = now.date().isoformat()
Date(t) == t \div SecondsPerDay

\* A row of daily_stats with the column defaults; error_codes and model_usage
\* hold JSON objects, modelled by the mappings json.loads gives.
NewStat(key_id, date) ==
    [key_id |-> key_id, date |-> date, requests |-> 0, successes |-> 0, errors |-> 0,
     tokens_in |-> 0, tokens_out |-> 0, total_latency_ms |-> 0,
     error_codes |-> << >>, model_usage |-> << >>]

StatOf(row, key_id, date) == row.key_id = key_id /\ row.date = date

\* dict.get(key, 0)
CountIn(m, key) == IF key \in DOMAIN m THEN m[key] ELSE 0

\* m[key] = v
Put(m, key, v) == [k \in DOMAIN m \cup {key} |-> IF k = key THEN v ELSE m[k]]

\* INSERT OR IGNORE INTO daily_stats (key_id, date): UNIQUE (key_id, date)
\* makes it a no-op when the row exists.  Foreign keys are not enforced (no
\* PRAGMA foreign_keys), so any key_id is accepted.
InsertOrIgnore(ds, key_id, date) ==
    IF \E i \in DOMAIN ds : StatOf(ds[i], key_id, date) THEN ds
    ELSE Append(ds, NewStat(key_id, date))

\* SELECT error_codes, model_usage ... fetchone(), json.loads of both.
SelectMaps(ds, key_id, date) ==
    LET i == CHOOSE i \in DOMAIN ds :
                 /\ StatOf(ds[i], key_id, date)
                 /\ \A j \in DOMAIN ds : StatOf(ds[j], key_id, date) => i <= j
    IN  [error_codes |-> ds[i].error_codes, model_usage |-> ds[i].model_usage]

\* StatAfter that counts an error for every call.
StatAfterAlwaysError(row, maps, success, model_name, error_code, tokens_in, tokens_out, latency_ms) ==
    [row EXCEPT !.requests = @ + 1, !.total_latency_ms = @ + latency_ms,
                !.errors = @ + 1]

\* The SET clause of the UPDATE daily_stats, with maps the mappings read by
\* the SELECT before it.
StatAfter(row, maps, success, model_name, error_code, tokens_in, tokens_out, latency_ms) ==
    LET base == [row EXCEPT !.requests = @ + 1, !.total_latency_ms = @ + latency_ms]
    IN  IF success
        THEN [base EXCEPT !.successes = @ + 1, !.tokens_in = @ + tokens_in,
                          !.tokens_out = @ + tokens_out,
                          !.model_usage = Put(maps.model_usage, model_name,
                                              CountIn(maps.model_usage, model_name) + 1)]
        ELSE IF error_code # None
        THEN [base EXCEPT !.errors = @ + 1,
                          !.error_codes = Put(maps.error_codes, ToString(error_code),
                                              CountIn(maps.error_codes,
                                                      ToString(error_code)) + 1)]
        ELSE [base EXCEPT !.errors = @ + 1]

\* UPDATE daily_stats SET ... WHERE key_id = ? AND date = ?
UpdateStats(ds, maps, key_id, date, success, model_name, error_code, tokens_in, tokens_out, latency_ms) ==
    [i \in DOMAIN ds |->
        IF StatOf(ds[i], key_id, date)
        THEN StatAfter(ds[i], maps, success, model_name, error_code, tokens_in,
                       tokens_out, latency_ms)
        ELSE ds[i]]

DailyAfterOutcome(ds, key_id, date, success, model_name, error_code, tokens_in, tokens_out, latency_ms) ==
    LET d1 == InsertOrIgnore(ds, key_id, date) IN
    UpdateStats(d1, SelectMaps(d1, key_id, date), key_id, date, success, model_name,
                error_code, tokens_in, tokens_out, latency_ms)

\* update_key_stats as one step: the body runs under the store lock.
UpdateKeyStatsStep(key_id, success, model_name, error_code, tokens_in, tokens_out, latency_ms) ==
    LET t == now + 1
        raised == Raises(keys, key_id, success, error_code) IN
    /\ now' = t
    /\ keys' = KeysAfterOutcome(keys, key_id, success, error_code, t)
    /\ daily' = IF raised THEN daily
                ELSE DailyAfterOutcome(daily, key_id, Date(t), success, model_name,
                                       error_code, tokens_in, tokens_out, latency_ms)
    /\ prev' = keys
    /\ last' = [NoOp EXCEPT !.op = "update_key_stats", !.ids = {key_id}, !.at = t,
                            !.ok = success, !.code = error_code,
                            !.msg = IF raised THEN "TypeError" ELSE ""]
    /\ run' = NoRun
    /\ UNCHANGED nextId

update_key_stats(key_id, success, model_name, error_code, tokens_in, tokens_out, latency_ms) ==
    /\ nops' = nops + 1
    /\ UpdateKeyStatsStep(key_id, success, model_name, error_code, tokens_in,
                          tokens_out, latency_ms)
    /\ UNCHANGED <<nticks, proxyVars, lockVars, cache>>

\* ------------------------- update_key_stats, statement by statement
\* LockFree that lets every thread in.
LockAlwaysFree(l) == TRUE

\* with self.lock: a thread enters when no thread holds the lock.
LockFree(l) == l = None

\* A thread calls update_key_stats(key_id, success, model_name, error_code,
\* tokens_in, tokens_out, latency_ms) and enters the with block.
UksEnter(t, args) ==
    /\ thr[t].pc = "idle"
    /\ LockFree(lock)
    /\ lock' = t
    /\ thr' = [thr EXCEPT ![t] = [IdleThread EXCEPT !.pc = "locked", !.args = args]]
    /\ nops' = nops + 1
    /\ UNCHANGED <<storeVars, nticks, proxyVars, log, api_lock, cache>>

\* The statements up to the SELECT of the two JSON columns: the clock reading,
\* the status UPDATE, INSERT OR IGNORE, and json.loads of what the SELECT
\* returns.  The TypeError of the success path leaves the with block.
UksRead(t) ==
    LET a == thr[t].args
        at == now + 1
        raised == Raises(keys, a[1], a[2], a[4])
        d1 == InsertOrIgnore(daily, a[1], Date(at)) IN
    /\ thr[t].pc = "locked"
    /\ now' = at
    /\ keys' = KeysAfterOutcome(keys, a[1], a[2], a[4], at)
    /\ daily' = IF raised THEN daily ELSE d1
    /\ thr' = [thr EXCEPT ![t] =
                 IF raised THEN IdleThread
                 ELSE [@ EXCEPT !.pc = "read", !.today = Date(at),
                                !.maps = SelectMaps(d1, a[1], Date(at))]]
    /\ lock' = IF raised THEN None ELSE lock
    /\ prev' = keys
    /\ last' = [NoOp EXCEPT !.op = "update_key_stats", !.ids = {a[1]}, !.at = at,
                            !.ok = a[2], !.code = a[4],
                            !.msg = IF raised THEN "TypeError" ELSE ""]
    /\ run' = NoRun
    /\ UNCHANGED <<nextId, countVars, proxyVars, log, api_lock, cache>>

\* The UPDATE daily_stats, the commit and the end of the with block.
UksWrite(t) ==
    LET a == thr[t].args IN
    /\ thr[t].pc = "read"
    /\ daily' = UpdateStats(daily, thr[t].maps, a[1], thr[t].today, a[2], a[3], a[4],
                            a[5], a[6], a[7])
    /\ log' = log (+) SetToBag({[key_id |-> a[1], date |-> thr[t].today,
                                 success |-> a[2], model_name |-> a[3],
                                 error_code |-> a[4], tokens_in |-> a[5],
                                 tokens_out |-> a[6], latency_ms |-> a[7]]})
    /\ thr' = [thr EXCEPT ![t] = IdleThread]
    /\ lock' = None
    /\ UNCHANGED <<keys, nextId, now, last, prev, run, countVars, proxyVars, api_lock, cache>>

\* ------------------------------ get_next_key, statement by statement
\* A thread of the proxy calls key_manager.get_next_key(exclude_ids) and
\* enters the with block of app.proxy.key_manager.
GnkEnter(t, exclude_ids) ==
    /\ thr[t].pc = "idle"
    /\ LockFree(lock)
    /\ lock' = t
    /\ thr' = [thr EXCEPT ![t] = [IdleThread EXCEPT !.pc = "heal", !.args = <<exclude_ids>>]]
    /\ nops' = nops + 1
    /\ UNCHANGED <<storeVars, nticks, proxyVars, log, api_lock, cache>>

\* The clock reading, the healing UPDATE and its commit.
GnkHeal(t) ==
    LET at == now + 1 IN
    /\ thr[t].pc = "heal"
    /\ now' = at
    /\ keys' = Heal(keys, at)
    /\ thr' = [thr EXCEPT ![t] = [@ EXCEPT !.pc = "select", !.now_iso = at]]
    /\ UNCHANGED <<nextId, last, prev, run, daily, countVars, proxyVars, log, lock,
                   api_lock, cache>>

\* The SELECT and fetchone(); `return None` leaves the with block.
GnkSelect(t) ==
    LET id == SelectKey(keys, thr[t].args[1]) IN
    /\ thr[t].pc = "select"
    /\ thr' = [thr EXCEPT ![t] =
                 IF id = None THEN IdleThread
                 ELSE [@ EXCEPT !.pc = "stamp",
                                !.key_info = [id |-> id, status |-> keys[id].status]]]
    /\ lock' = IF id = None THEN None ELSE lock
    /\ last' = IF id = None
               THEN [NoOp EXCEPT !.op = "get_next_key", !.ids = thr[t].args[1],
                                 !.at = thr[t].now_iso]
               ELSE last
    /\ UNCHANGED <<keys, nextId, now, prev, run, daily, countVars, proxyVars, log,
                   api_lock, cache>>

\* UPDATE keys SET last_rotated_at = ? WHERE id = key_info['id'], the commit
\* and `return dict(key_info)`: the row as the SELECT read it.
GnkStamp(t) ==
    LET info == thr[t].key_info IN
    /\ thr[t].pc = "stamp"
    /\ keys' = IF info.id \in Ids(keys) THEN Stamp(keys, info.id, thr[t].now_iso)
               ELSE keys
    /\ thr' = [thr EXCEPT ![t] = IdleThread]
    /\ lock' = None
    /\ prev' = keys
    /\ last' = [NoOp EXCEPT !.op = "get_next_key", !.ids = thr[t].args[1],
                            !.id = info.id, !.status = info.status,
                            !.at = thr[t].now_iso]
    /\ UNCHANGED <<nextId, now, run, daily, countVars, proxyVars, log, api_lock, cache>>

\* ---------------------------------------------------- remove_key
\* DELETE FROM keys WHERE id = ?.  daily_stats declares ON DELETE CASCADE,
\* but SQLite enforces foreign keys only on a connection that has issued
\* PRAGMA foreign_keys = ON, which KeyManager never does: the rows stay.
DailyAfterRemove(ds, key_id) == ds

remove_key(key_id) ==
    /\ LockFree(lock)
    /\ nops' = nops + 1
    /\ keys' = [k \in Ids(keys) \ {key_id} |-> keys[k]]
    /\ daily' = DailyAfterRemove(daily, key_id)
    /\ prev' = keys
    /\ last' = [NoOp EXCEPT !.op = "remove_key", !.ids = {key_id},
                            !.ok = key_id \in Ids(keys)]
    /\ run' = NoRun
    /\ UNCHANGED <<nextId, now, nticks, proxyVars, lockVars>>
    /\ cache' = NoCache

\* ------------------------------------------------------- add_key
ValidKey(key_value) == Len(key_value) >= MinKeyLen

add_key(key_value) ==
    LET ok == ValidKey(key_value) /\ ~ValueExists(keys, key_value) IN
    /\ UNCHANGED nticks
    /\ ok => Cardinality(Ids(keys)) < MaxKeys
    /\ nops' = nops + 1
    /\ keys' = IF ok THEN Insert(keys, nextId, key_value) ELSE keys
    /\ nextId' = IF ok THEN nextId + 1 ELSE nextId
    /\ prev' = keys
    /\ last' = [NoOp EXCEPT !.op = "add_key", !.ok = ok,
                            !.msg = IF ok THEN "Key added."
                                    ELSE IF ValidKey(key_value) THEN "Key exists."
                                    ELSE "Invalid key."]
    /\ run' = NoRun
    /\ UNCHANGED <<now, proxyVars, daily, lockVars>>
    /\ cache' = IF ok THEN NoCache ELSE cache

\* ---------------------------------------------------- update_key
\* The columns update_key sets: key_value when new_value is longer than 10
\* characters, status (with disabled_until = NULL) when new_status is
\* 'Healthy' or 'Disabled'.  other: a new_name or a new_note is given.
SetsValue(new_value) == new_value # "" /\ Len(new_value) > 10

\* SetsStatus that accepts every status given.
SetsStatusAny(new_status) == new_status # ""

SetsStatus(new_status) == new_status # "" /\ new_status \in {"Healthy", "Disabled"}

\* RowAfterUpdate that sets the status and leaves disabled_until alone.
RowAfterUpdateKeepsUntil(row, new_value, new_status) ==
    LET r1 == IF SetsValue(new_value) THEN [row EXCEPT !.key_value = new_value] ELSE row
    IN  IF SetsStatus(new_status) THEN [r1 EXCEPT !.status = new_status] ELSE r1

RowAfterUpdate(row, new_value, new_status) ==
    LET r1 == IF SetsValue(new_value) THEN [row EXCEPT !.key_value = new_value] ELSE row
    IN  IF SetsStatus(new_status)
        THEN [r1 EXCEPT !.status = new_status, !.disabled_until = NULL]
        ELSE r1

update_key(key_id, new_value, new_status, other) ==
    LET valid == other \/ SetsValue(new_value) \/ SetsStatus(new_status)
        clash == /\ SetsValue(new_value)
                 /\ key_id \in Ids(keys)
                 /\ \E k \in Ids(keys) \ {key_id} : keys[k].key_value = new_value
        ok == valid /\ ~clash IN
    /\ UNCHANGED nticks
    /\ nops' = nops + 1
    /\ keys' = IF ok /\ key_id \in Ids(keys)
               THEN [keys EXCEPT ![key_id] = RowAfterUpdate(keys[key_id], new_value, new_status)]
               ELSE keys
    /\ prev' = keys
    /\ last' = [NoOp EXCEPT !.op = "update_key", !.ids = {key_id}, !.ok = ok,
                            !.status = new_status,
                            !.msg = IF ~valid THEN "No valid data."
                                    ELSE IF clash THEN "Update failed."
                                    ELSE "Key updated."]
    /\ run' = NoRun
    /\ UNCHANGED <<nextId, now, proxyVars, daily, lockVars>>
    /\ cache' = IF ok THEN NoCache ELSE cache

\* -------------------------------------------- bulk_update_status
\* RowAfterBulk that rests a credential for the 60 seconds of a 429.
RowAfterBulkShortRest(row, status, t) ==
    IF status = "Resting"
    THEN [row EXCEPT !.status = status, !.disabled_until = t + RestSeconds]
    ELSE [row EXCEPT !.status = status, !.disabled_until = NULL]

RowAfterBulk(row, status, t) ==
    IF status = "Resting"
    THEN [row EXCEPT !.status = status, !.disabled_until = t + BulkRestSeconds]
    ELSE [row EXCEPT !.status = status, !.disabled_until = NULL]

bulk_update_status(key_ids, status) ==
    LET ok == key_ids # {} /\ status \in {"Healthy", "Disabled", "Resting"}
        t == IF ok /\ status = "Resting" THEN now + 1 ELSE now IN
    /\ UNCHANGED nticks
    /\ nops' = nops + 1
    /\ now' = t
    /\ keys' = IF ok
               THEN [k \in Ids(keys) |->
                        IF k \in key_ids THEN RowAfterBulk(keys[k], status, t) ELSE keys[k]]
               ELSE keys
    /\ prev' = keys
    /\ last' = [NoOp EXCEPT !.op = "bulk_update_status", !.ids = key_ids, !.ok = ok,
                            !.status = status,
                            !.msg = IF ok THEN "keys updated"
                                    ELSE "Invalid data for bulk update."]
    /\ run' = NoRun
    /\ UNCHANGED <<nextId, proxyVars, daily, lockVars>>
    /\ cache' = IF ok THEN NoCache ELSE cache

\* ---------------------------------------------- bulk_import_keys
\* One entry of the batch: skipped when its key_value is missing, too short
\* or already in the table, inserted otherwise.  Returns the table, the
\* AUTOINCREMENT counter and the two counts after the entries so far.
RECURSIVE ImportFrom(_, _)
ImportFrom(acc, batch) ==
    IF batch = << >> THEN acc
    ELSE LET v == Head(batch)
             ins == ValidKey(v) /\ ~ValueExists(acc.keys, v)
         IN  ImportFrom(
                 IF ins
                 THEN [keys |-> Insert(acc.keys, acc.nextId, v), nextId |-> acc.nextId + 1,
                       imported |-> acc.imported + 1, skipped |-> acc.skipped]
                 ELSE [acc EXCEPT !.skipped = acc.skipped + 1],
                 Tail(batch))

\* ImportResult that stops after the first entry of the batch.
ImportResultFirstOnly(ks, nid, batch) ==
    ImportFrom([keys |-> ks, nextId |-> nid, imported |-> 0, skipped |-> 0],
               IF batch = << >> THEN batch ELSE <<Head(batch)>>)

ImportResult(ks, nid, batch) ==
    ImportFrom([keys |-> ks, nextId |-> nid, imported |-> 0, skipped |-> 0], batch)

bulk_import_keys(batch) ==
    LET res == ImportResult(keys, nextId, batch) IN
    /\ UNCHANGED nticks
    /\ Cardinality(Ids(res.keys)) <= MaxKeys
    /\ nops' = nops + 1
    /\ keys' = res.keys
    /\ nextId' = res.nextId
    /\ prev' = keys
    /\ last' = [NoOp EXCEPT !.op = "bulk_import_keys", !.code = res.imported,
                            !.id = res.skipped, !.msg = "Import complete."]
    /\ run' = NoRun
    /\ UNCHANGED <<now, proxyVars, daily, lockVars>>
    /\ cache' = NoCache

\* ------------------------------------- export and import, with names
\* The name and note columns, which the operations above leave out: name is
\* TEXT NOT NULL DEFAULT 'Unnamed', note is TEXT.  A value that may be absent
\* (Python None, SQL NULL, a missing dictionary key) is a sequence: << >>
\* when absent, <<value>> when given.
NameInputs == {<< >>, <<"">>, <<" Key A ">>, <<"Key A">>}
NoteInputs == {<< >>, <<"">>, <<"a note">>}

\* str.strip() on the names above.
Strip(name) ==
    CASE name = " Key A " -> "Key A"
      [] OTHER -> name

\* add_key: key_name = name.strip() if name and name.strip() else 'Unnamed'
KeyName(name) ==
    IF name # << >> /\ Strip(name[1]) # "" THEN Strip(name[1]) ELSE "Unnamed"

\* bulk_import_keys: name = key_obj.get('name', 'Unnamed')
EntryName(name) == IF name = << >> THEN "Unnamed" ELSE name[1]

\* A row of the keys table with its name and note.
NamedRow(key_value, name, note) ==
    [name |-> name, note |-> note] @@ NewRow(key_value)

InsertNamed(ks, id, key_value, name, note) ==
    [k \in Ids(ks) \cup {id} |-> IF k = id THEN NamedRow(key_value, name, note) ELSE ks[k]]

\* _migrate_from_env: every non-empty entry of GEMINI_API_KEYS is inserted,
\* whatever its length, with the column defaults.
EnvSecrets == {"env-key-00001", "env-9-chr"}

MigratedTables ==
    {<< >>} \cup {<<NamedRow(v, "Unnamed", << >>)>> : v \in EnvSecrets}
            \cup {<<NamedRow(p[1], "Unnamed", << >>), NamedRow(p[2], "Unnamed", << >>)>> :
                      p \in {q \in EnvSecrets \X EnvSecrets : q[1] # q[2]}}

\* add_key(key_value, name, note)
add_key_named(key_value, name, note) ==
    LET ok == ValidKey(key_value) /\ ~ValueExists(keys, key_value) IN
    /\ ok => Cardinality(Ids(keys)) < MaxKeys
    /\ nops' = nops + 1
    /\ keys' = IF ok THEN InsertNamed(keys, nextId, key_value, KeyName(name), note)
               ELSE keys
    /\ nextId' = IF ok THEN nextId + 1 ELSE nextId
    /\ prev' = keys
    /\ last' = [NoOp EXCEPT !.op = "add_key", !.ok = ok,
                            !.msg = IF ok THEN "Key added."
                                    ELSE IF ValidKey(key_value) THEN "Key exists."
                                    ELSE "Invalid key."]
    /\ run' = NoRun
    /\ UNCHANGED <<now, nticks, proxyVars, daily, lockVars>>
    /\ cache' = IF ok THEN NoCache ELSE cache

\* get_all_keys_for_export: SELECT name, key_value, note FROM keys ORDER BY id,
\* each row as a dictionary.
RECURSIVE ExportFrom(_, _)
ExportFrom(ks, ids) ==
    IF ids = {} THEN << >>
    ELSE LET k == CHOOSE k \in ids : \A j \in ids : k <= j IN
         <<[name |-> <<ks[k].name>>, key_value |-> ks[k].key_value,
            note |-> ks[k].note]>> \o ExportFrom(ks, ids \ {k})

get_all_keys_for_export(ks) == ExportFrom(ks, Ids(ks))

\* bulk_import_keys on dictionaries with key_value, name and note.
RECURSIVE ImportEntriesFrom(_, _)
ImportEntriesFrom(acc, batch) ==
    IF batch = << >> THEN acc
    ELSE LET entry == Head(batch)
             ins == ValidKey(entry.key_value) /\ ~ValueExists(acc.keys, entry.key_value)
         IN  ImportEntriesFrom(
                 IF ins
                 THEN [keys |-> InsertNamed(acc.keys, acc.nextId, entry.key_value,
                                            EntryName(entry.name), entry.note),
                       nextId |-> acc.nextId + 1,
                       imported |-> acc.imported + 1, skipped |-> acc.skipped]
                 ELSE [acc EXCEPT !.skipped = acc.skipped + 1],
                 Tail(batch))

ImportEntries(ks, nid, batch) ==
    ImportEntriesFrom([keys |-> ks, nextId |-> nid, imported |-> 0, skipped |-> 0], batch)

bulk_import_entries(batch) ==
    LET res == ImportEntries(keys, nextId, batch) IN
    /\ Cardinality(Ids(res.keys)) <= MaxKeys
    /\ nops' = nops + 1
    /\ keys' = res.keys
    /\ nextId' = res.nextId
    /\ prev' = keys
    /\ last' = [NoOp EXCEPT !.op = "bulk_import_keys", !.code = res.imported,
                            !.id = res.skipped, !.msg = "Import complete."]
    /\ run' = NoRun
    /\ UNCHANGED <<now, nticks, proxyVars, daily, lockVars>>
    /\ cache' = NoCache

\* Entries bulk_import_keys is called with, one or two to a batch.
Entries ==
    {[name |-> n, key_value |-> v, note |-> t] :
        n \in {<< >>, <<" Key A ">>}, v \in {"", "key-10-chr", "key-11-char"},
        t \in {<< >>, <<"a note">>}}

\* ------------------------------------------- get_all_keys_with_kpi
\* The daily_stats row of a credential for a date, as
\* today_stats.get(key['id']) finds it: << >> when there is none.
TodayStats(ds, key_id, today) ==
    IF \E i \in DOMAIN ds : StatOf(ds[i], key_id, today)
    THEN <<ds[CHOOSE i \in DOMAIN ds : StatOf(ds[i], key_id, today)]>>
    ELSE << >>

\* max(0, x)
Max0(x) == IF x > 0 THEN x ELSE 0

\* The KPI of a row with requests, rounded to the nearest integer.
KpiRounded(stat) ==
    LET den == LatencyCeilingMs * stat.requests
        num == SuccessWeight * stat.successes * LatencyCeilingMs
               + LatencyWeight * Max0(den - stat.total_latency_ms)
    IN  (2 * num + den) \div (2 * den)

\* int(success_rate * 70 + latency_score * 30) with
\*   success_rate = successes / requests
\*   latency_score = max(0, 1 - (total_latency_ms / requests) / 5000):
\* the sum is num / den below, and int() drops its fraction.  (Python
\* computes the sum in binary floating point; for the rows of this model
\* that gives the same integer.)
Kpi(stat) ==
    LET den == LatencyCeilingMs * stat.requests
        num == SuccessWeight * stat.successes * LatencyCeilingMs
               + LatencyWeight * Max0(den - stat.total_latency_ms)
    IN  num \div den

\* _compute_keys_with_kpi: the key list with a kpi for every credential, as
\* the mapping id -> kpi.  today is datetime.date.today(), the date of the
\* process's time zone, taken to be UTC as the dates of daily_stats are.
compute_keys_with_kpi(ks, ds, today) ==
    [k \in Ids(ks) |->
        LET stats == TodayStats(ds, k, today) IN
        IF stats = << >> \/ stats[1].requests = 0 THEN IdleKpi ELSE Kpi(stats[1])]

\* _get_cached: the cached result when it is younger than the TTL.
CacheHit(c, key, t) == key \in DOMAIN c /\ t - c[key].at < CacheTtl

\* get_all_keys_with_kpi(), called by the key list route.
get_all_keys_with_kpi ==
    LET t == now + 1
        hit == CacheHit(cache, "keys_with_kpi", t)
        result == IF hit THEN cache["keys_with_kpi"].result
                  ELSE compute_keys_with_kpi(keys, daily, Date(t)) IN
    /\ now' = t
    /\ nops' = nops + 1
    /\ cache' = IF hit THEN cache
                ELSE Put(cache, "keys_with_kpi", [at |-> t, result |-> result])
    /\ prev' = keys
    /\ last' = [NoOp EXCEPT !.op = "get_all_keys_with_kpi", !.at = t,
                            !.ok = ~hit, !.result = result]
    /\ run' = NoRun
    /\ UNCHANGED <<keys, nextId, nticks, daily, proxyVars, lockVars>>

\* The days arguments of get_global_stats.
DaysInputs == {0, 1, 7}

\* SUM(column) over the daily_stats rows of one date.
RECURSIVE DaySum(_, _, _)
DaySum(ds, date, column) ==
    IF ds = << >> THEN 0
    ELSE (IF Head(ds).date = date THEN Head(ds)[column] ELSE 0) + DaySum(Tail(ds), date, column)

\* The "historical" part of _compute_global_stats(days): per date not before
\* today - days, the sums over the credentials.
compute_global_stats(ds, days, today) ==
    LET dates == {ds[i].date : i \in {j \in DOMAIN ds : ds[j].date >= today - days}} IN
    [d \in dates |-> [total_requests |-> DaySum(ds, d, "requests"),
                      total_successes |-> DaySum(ds, d, "successes"),
                      total_latency |-> DaySum(ds, d, "total_latency_ms")]]

\* get_global_stats(days): _get_cached under the key 'global_stats'.  The
\* cache entry also records the days it was computed for, which the code does
\* not keep.
get_global_stats(days) ==
    LET t == now + 1
        hit == CacheHit(cache, "global_stats", t)
        result == IF hit THEN cache["global_stats"].result
                  ELSE compute_global_stats(daily, days, Date(t)) IN
    /\ now' = t
    /\ nops' = nops + 1
    /\ cache' = IF hit THEN cache
                ELSE Put(cache, "global_stats", [at |-> t, result |-> result, days |-> days])
    /\ prev' = keys
    /\ last' = [NoOp EXCEPT !.op = "get_global_stats", !.at = t,
                            !.ok = ~hit, !.result = result]
    /\ run' = NoRun
    /\ UNCHANGED <<keys, nextId, nticks, daily, proxyVars, lockVars>>

\* ---------------------------------------- the administrative routes
\* The routes of app.api_routes call the store through the KeyManager that
\* module creates, `key_manager = KeyManager()`: an object of its own, with
\* the threading.Lock and the SQLite connection its __init__ made.  The
\* route's operation is one transaction of that connection, and SQLite lets
\* it write when no other connection has a write transaction open: the
\* proxy's connection has one between the first INSERT or UPDATE of a store
\* operation and its commit.
WriteOpen == \E t \in Threads : thr[t].pc = "read"

update_key_route(key_id, new_value, new_status, other) ==
    /\ LockFree(api_lock)
    /\ ~WriteOpen
    /\ update_key(key_id, new_value, new_status, other)

bulk_action_route(key_ids, status) ==
    /\ LockFree(api_lock)
    /\ ~WriteOpen
    /\ bulk_update_status(key_ids, status)

\* ------------------------------------------------------- proxy()
\* The urllib3 Retry the pooled session is mounted with resends a request
\* answered with one of these codes.
StatusForcelist == {429, 500, 502, 503, 504}

Retried(answer) == answer = TransportError \/ answer \in StatusForcelist

\* Exchange whose pooled session resends once more than retry_total.
ExchangeExtraResend(pooled, retry_total) ==
    IF pooled
    THEN {<<n, a, a>> : <<n, a>> \in
              {<<n, a>> \in (1..(retry_total + 2)) \X UpstreamAnswers : ~Retried(a)}}
         \cup {<<retry_total + 2, TransportError, u>> :
                   u \in {x \in UpstreamAnswers : Retried(x)}}
    ELSE {<<1, a, a>> : a \in UpstreamAnswers}

\* What one session.request / requests.request call does: <<n, a, u>> with n
\* the HTTP requests put on the wire, u what the upstream did with the last
\* of them, and a what proxy() gets: the response status, or TransportError
\* when the call raises a RequestException.  The pooled session resends
\* while the answer is one its Retry retries and fewer than retry_total
\* resends were made; when they are used up the call raises (RetryError for
\* a status of the forcelist), whatever retry_total is.
Exchange(pooled, retry_total) ==
    IF pooled
    THEN {<<n, a, a>> : <<n, a>> \in
              {<<n, a>> \in (1..(retry_total + 1)) \X UpstreamAnswers : ~Retried(a)}}
         \cup {<<retry_total + 1, TransportError, u>> :
                   u \in {x \in UpstreamAnswers : Retried(x)}}
    ELSE {<<1, a, a>> : a \in UpstreamAnswers}

\* InLoop of a loop with one pass less: range(max_retries).
InLoopShort(attempt, max_retries) == attempt < max_retries

\* for attempt in range(max_retries + 1)
InLoop(attempt, max_retries) == attempt <= max_retries

\* resp.ok
Ok(answer) == answer # TransportError /\ answer < 400

\* OutcomeOf that reports the status it has, and none for an exception.
OutcomeOfStatusOnly(answer) ==
    IF Ok(answer) THEN <<TRUE, None>> ELSE <<FALSE, answer>>

\* The arguments of the update_key_stats call that follows the answer.
OutcomeOf(answer) ==
    IF answer = TransportError THEN <<FALSE, NetworkErrorCode>>
    ELSE IF Ok(answer) THEN <<TRUE, None>>
    ELSE <<FALSE, answer>>

\* FailsOver for transport exceptions only.
FailsOverOnExceptionOnly(answer, attempt, max_retries) ==
    answer = TransportError /\ attempt < max_retries

\* FailsOver for a 503 response only.
FailsOverOn503Only(answer, attempt, max_retries) ==
    answer = 503 /\ attempt < max_retries

\* The attempts that end in `continue`.
FailsOver(answer, attempt, max_retries) ==
    /\ answer = TransportError \/ answer = 503
    /\ attempt < max_retries

\* The token counts in a response body: usage.prompt_tokens and
\* usage.completion_tokens when the JSON object has 'usage', else
\* usageMetadata.promptTokenCount and candidatesTokenCount when it has
\* 'usageMetadata', else 0; 0 as well when the body is not JSON.
TokensOf(body) ==
    IF ~body.json THEN <<0, 0>>
    ELSE IF body.usage # << >> THEN body.usage
    ELSE IF body.usageMetadata # << >> THEN body.usageMetadata
    ELSE <<0, 0>>

\* tokens_in, tokens_out at the update_key_stats call of a success.  The
\* buffered branch parses resp.content before the call; the streaming branch
\* assigns them inside generate(), which runs when the response is sent, after
\* the call.
RecordedTokens(streaming_enabled, body) ==
    IF streaming_enabled THEN <<0, 0>> ELSE TokensOf(body)

\* ------------------------------------------- format, model, headers
\* 'openai' in path or path.startswith('v1/')
ProviderFormat(path) ==
    IF (\E i \in 1..Len(path) : \E j \in 1..Len(path[i]) : path[i][j] = "openai")
       \/ (Len(path) >= 2 /\ path[1] = <<"v1">>)
    THEN "openai" ELSE "gemini"

\* path.endswith('/models')
EndsWithModels(path) == Len(path) >= 2 /\ path[Len(path)] = <<"models">>

\* The model of a native path: "model-discovery" when the path holds 'models'
\* and no ':', else the text after the last '/' up to a ':' that follows it.
GeminiModelName(path) ==
    LET tail == path[Len(path)] IN
    IF (\E i \in 1..Len(path) : \E j \in 1..Len(path[i]) : path[i][j] = "models")
       /\ (\A i \in 1..Len(path) : Len(path[i]) = 1)
    THEN "model-discovery"
    ELSE tail[1]

\* k.lower() of the header names in use.
Lower(k) ==
    CASE k = "Host" -> "host"
      [] k = "Authorization" -> "authorization"
      [] k = "X-Goog-Api-Key" -> "x-goog-api-key"
      [] k = "Content-Type" -> "content-type"
      [] k = "X-Custom" -> "x-custom"
      [] OTHER -> k

\* request.get_json(silent=True): the parsed object when the content type is
\* JSON and the body parses, else None.
GetJson(inbound, data) ==
    IF (\E k \in DOMAIN inbound : Lower(k) = "content-type" /\ inbound[k] = <<"application/json">>)
       /\ data.json
    THEN <<data>> ELSE << >>

\* The local request_data of proxy() before line 545 assigns it: reading it
\* raises UnboundLocalError, a NameError.
Unbound == [text |-> "<unbound>", quoted |-> FALSE, json |-> FALSE, model |-> << >>]

\* The model of an openai request as the try block leaves it: "unknown" when
\* reading request_data raises NameError, when it is empty, when it lacks
\* the quoted text, when get_json gives nothing, or when the object has no
\* model field.
BodyModelName(request_data, inbound, data) ==
    IF request_data = Unbound THEN "unknown"
    ELSE IF request_data.text = "" \/ ~request_data.quoted THEN "unknown"
    ELSE IF GetJson(inbound, data) = << >> THEN "unknown"
    ELSE IF data.model = << >> THEN "unknown"
    ELSE data.model[1]

\* model_name as line 542 logs it and update_key_stats gets it.
ModelName(path, request_data, inbound, data) ==
    IF ProviderFormat(path) = "gemini" THEN GeminiModelName(path)
    ELSE IF EndsWithModels(path) THEN "model-discovery"
    ELSE BodyModelName(request_data, inbound, data)

excluded_headers == {"host", "authorization", "x-goog-api-key"}

\* Passes that compares the name as it was sent.
PassesExactName(k) == k \notin excluded_headers

\* lk not in excluded_headers
Passes(k) == Lower(k) \notin excluded_headers

\* The auth header of the format: its name and its value for the secret.
AuthName(provider_format) ==
    IF provider_format = "openai" THEN "Authorization" ELSE "x-goog-api-key"
AuthValue(provider_format, api_key) ==
    IF provider_format = "openai" THEN <<"Bearer", api_key>> ELSE <<api_key>>

\* request_timeout_tuple = (connect_timeout, min(read_timeout,
\* streaming_timeout)), the timeout argument of the upstream call.  The
\* request_timeout setting is read and converted (lines 598, 664-667) and
\* not used.
RequestTimeoutTuple(s) ==
    <<s.connect_timeout,
      IF s.read_timeout <= s.streaming_timeout THEN s.read_timeout ELSE s.streaming_timeout>>

\* The headers dictionary handed to the upstream call of one attempt.
ForwardedHeaders(inbound, provider_format, api_key) ==
    LET kept == {k \in DOMAIN inbound : Passes(k)}
        auth == AuthName(provider_format)
        names == kept \cup {auth, "Content-Type"} IN
    [k \in names |->
        IF k = auth THEN AuthValue(provider_format, api_key)
        ELSE IF k \in kept THEN inbound[k]
        ELSE <<"application/json">>]

\* ------------------------------------------------------ streaming
\* The bytes of an upstream body, and the sizes of the chunks iter_content
\* cuts it into.
UpstreamBytes == <<1, 2, 3, 4>>
ChunkSizes == {1, 2}

\* No streamed response, and the generator of one before its first next():
\* kind is "generate" for a success and "error_generate" for an error.
NoStream ==
    [pc |-> "none", kind |-> "", pos |-> 0, last_chunk |-> 0, retry_count |-> 0,
     chunk_retry_delay |-> 0, max_stream_retries |-> 0, recursion_depth |-> 0,
     errors |-> 0, closes |-> 0, json_start_buffer |-> << >>, json_buffer_size |-> 0]
ReadyStream(kind) == [NoStream EXCEPT !.pc = "ready", !.kind = kind]

\* What becomes of the upstream response of an attempt: there is none after
\* a transport exception; with stream=False the body is read by the call,
\* and the success branch calls resp.close(); with stream=True the response
\* is handed to a generator when it is returned to the client, and stays open
\* when the attempt ends in `continue`.
RespAfter(streaming_enabled, answer, failover) ==
    IF answer = TransportError THEN "none"
    ELSE IF ~streaming_enabled THEN (IF Ok(answer) THEN "closed" ELSE "consumed")
    ELSE IF failover THEN "open"
    ELSE "streamed"

\* BufferAfter that takes the whole chunk.
BufferAfterWholeChunk(buffer, size, chunk, limit) ==
    IF size < limit THEN buffer \o chunk ELSE buffer

\* json_start_buffer += chunk[:remaining] when json_buffer_size is below the
\* limit.
BufferAfter(buffer, size, chunk, limit) ==
    IF size < limit
    THEN buffer \o SubSeq(chunk, 1, IF limit - size < Len(chunk) THEN limit - size ELSE Len(chunk))
    ELSE buffer

\* ClosesOnExit that skips the cleanup when the generator is abandoned.
ClosesOnExitNotAbandoned(exit, depth) == IF exit = "abandoned" THEN 0 ELSE depth

\* The resp.close() calls of the finally blocks when the generator exits:
\* one for each stream_generator frame.
ClosesOnExit(exit, depth) == depth

IdleRequest ==
    [pc |-> "idle", attempt |-> 0, max_retries |-> 0, tried_key_ids |-> << >>,
     key_id |-> None, calls |-> 0, sent |-> 0, status |-> 0, error |-> "",
     answers |-> << >>, recorded |-> << >>, body |-> NoBody,
     path |-> GeminiPath, inbound |-> PlainHeaders, data |-> NoData,
     request_data |-> Unbound, provider_format |-> "", model_name |-> "",
     api_key |-> "", stream |-> NoStream]

ProxyStart(r) ==
    /\ req[r].pc = "idle"
    /\ req' = [req EXCEPT ![r].pc = "pick",
                          ![r].provider_format = ProviderFormat(req[r].path),
                          ![r].model_name = ModelName(req[r].path, req[r].request_data,
                                                      req[r].inbound, req[r].data),
                          ![r].request_data = req[r].data,
                          ![r].max_retries = settings.max_retries]
    /\ UNCHANGED <<storeVars, countVars, settings, model_cache, lockVars, cache>>

ProxyPick(r) ==
    /\ req[r].pc = "pick"
    /\ IF ~InLoop(req[r].attempt, req[r].max_retries)
       THEN /\ req' = [req EXCEPT ![r].pc = "done", ![r].status = 503,
                                  ![r].error = "All keys failed after retries"]
            /\ UNCHANGED storeVars
       ELSE LET exclude_ids == ToSet(req[r].tried_key_ids)
                id == GetNextKeyResult(keys, exclude_ids, now + 1) IN
            /\ GetNextKeyStep(exclude_ids, FALSE)
            /\ req' = IF id = None
                      THEN [req EXCEPT ![r].pc = "done", ![r].status = 503,
                                       ![r].error = "No healthy API keys available."]
                      ELSE [req EXCEPT ![r].pc = "send", ![r].key_id = id,
                                       ![r].api_key = keys[id].key_value,
                                       ![r].tried_key_ids = Append(@, id)]
    /\ UNCHANGED <<countVars, settings, model_cache, lockVars, cache>>

\* One pass of the try block: the upstream call with <<n, a, u>> what it did
\* and body what a response carried, the update_key_stats call, and the
\* continue or return that follows.
ProxySend(r, n, a, u, body) ==
    LET q == req[r]
        o == OutcomeOf(a)
        tokens == IF Ok(a) THEN RecordedTokens(settings.streaming_enabled, body)
                  ELSE <<0, 0>>
        sent == [q EXCEPT !.calls = q.calls + 1, !.sent = q.sent + n,
                          !.answers = Append(q.answers,
                              [key_id |-> q.key_id, seen |-> a, upstream |-> u,
                               headers |-> ForwardedHeaders(q.inbound, q.provider_format,
                                                            q.api_key),
                               timeout |-> RequestTimeoutTuple(settings),
                               resp |-> RespAfter(settings.streaming_enabled, a,
                                                  FailsOver(a, q.attempt, q.max_retries))]),
                          !.recorded =
                              IF settings.enable_metrics_collection
                              THEN Append(q.recorded,
                                          <<q.key_id, o[1], o[2], tokens[1], tokens[2]>>)
                              ELSE q.recorded] IN
    /\ q.pc = "send"
    /\ <<n, a, u>> \in Exchange(settings.connection_pooling_enabled, settings.retry_total)
    /\ body = NoBody <=> ~Ok(a)
    /\ IF settings.enable_metrics_collection
       THEN UpdateKeyStatsStep(q.key_id, o[1], q.model_name, o[2], tokens[1], tokens[2], 0)
       ELSE UNCHANGED storeVars
    /\ req' = [req EXCEPT ![r] =
                 IF FailsOver(a, q.attempt, q.max_retries)
                 THEN [sent EXCEPT !.pc = "pick", !.attempt = q.attempt + 1]
                 ELSE [sent EXCEPT !.pc = "done", !.body = body,
                                   !.stream = IF settings.streaming_enabled /\ a # TransportError
                                              THEN ReadyStream(IF Ok(a) THEN "generate"
                                                               ELSE "error_generate")
                                              ELSE NoStream,
                                   !.status = IF a = TransportError THEN 502 ELSE a,
                                   !.error = IF a = TransportError
                                             THEN "Middleware network error" ELSE ""]]
    /\ UNCHANGED <<countVars, settings, model_cache, lockVars, cache>>

\* ------------------------------------- generate, stream_with_retry
\* The generator handed to Response() is run by the server after proxy()
\* returned.  Its first next() enters generate() or error_generate(), which
\* calls stream_with_retry (reading max_stream_retries and chunk_retry_delay)
\* and starts stream_generator.
StreamStart(r) ==
    LET s == req[r].stream IN
    /\ s.pc = "ready"
    /\ req' = [req EXCEPT ![r].stream =
                 [s EXCEPT !.pc = "loop", !.recursion_depth = 1,
                           !.max_stream_retries = settings.max_stream_retries,
                           !.chunk_retry_delay = settings.chunk_retry_delay]]
    /\ UNCHANGED <<storeVars, countVars, settings, model_cache, lockVars, cache>>

\* iter_content gives the next n bytes; stream_generator yields them and the
\* outer generator yields them to the client.
StreamChunk(r, n) ==
    LET s == req[r].stream IN
    /\ s.pc = "loop"
    /\ s.pos + n <= Len(UpstreamBytes)
    /\ req' = [req EXCEPT ![r].stream = [s EXCEPT !.pc = "yielded", !.pos = s.pos + n,
                                                  !.last_chunk = n]]
    /\ UNCHANGED <<storeVars, countVars, settings, model_cache, lockVars, cache>>

\* The client takes the next chunk: generate() adds the one it yielded to the
\* side buffer, under the json_buffer_limit it reads now, and
\* stream_generator resets retry_count and chunk_retry_delay.
StreamResume(r) ==
    LET s == req[r].stream
        chunk == SubSeq(UpstreamBytes, s.pos - s.last_chunk + 1, s.pos)
        limit == settings.json_buffer_limit
        buffered == s.kind = "generate" /\ s.json_buffer_size < limit IN
    /\ s.pc = "yielded"
    /\ req' = [req EXCEPT ![r].stream =
                 [s EXCEPT !.pc = "loop", !.retry_count = 0, !.chunk_retry_delay = 1,
                           !.json_start_buffer =
                               IF s.kind = "generate"
                               THEN BufferAfter(@, s.json_buffer_size, chunk, limit) ELSE @,
                           !.json_buffer_size = IF buffered THEN @ + Len(chunk) ELSE @]]
    /\ UNCHANGED <<storeVars, countVars, settings, model_cache, lockVars, cache>>

\* The generator leaves: every stream_generator frame runs its finally block.
StreamExit(s, exit) ==
    [s EXCEPT !.pc = exit, !.recursion_depth = 0,
              !.closes = @ + ClosesOnExit(exit, s.recursion_depth)]

\* The client is gone and the server closes the generator, which waits at a
\* yield: GeneratorExit passes the except clauses.
StreamAbandon(r) ==
    /\ req[r].stream.pc = "yielded"
    /\ req' = [req EXCEPT ![r].stream = StreamExit(@, "abandoned")]
    /\ UNCHANGED <<storeVars, countVars, settings, model_cache, lockVars, cache>>

\* iter_content is exhausted.
StreamEnd(r) ==
    /\ req[r].stream.pc = "loop"
    /\ req' = [req EXCEPT ![r].stream = StreamExit(@, "ended")]
    /\ UNCHANGED <<storeVars, countVars, settings, model_cache, lockVars, cache>>

\* iter_content raises.  With retries left, stream_generator sleeps
\* chunk_retry_delay seconds, doubles the delay and runs itself again on the
\* same response; time.sleep raises ValueError for a negative delay, which
\* the frame above catches, or which reaches the consumer when there is no
\* frame above.  Without retries left it logs and ends.
StreamFail(r) ==
    LET s == req[r].stream
        count == s.retry_count + 1
        failed == [s EXCEPT !.retry_count = count, !.errors = @ + 1] IN
    /\ s.pc = "loop"
    /\ s.errors < MaxReadErrors
    /\ req' = [req EXCEPT ![r].stream =
                 IF count > s.max_stream_retries THEN StreamExit(failed, "ended")
                 ELSE IF s.chunk_retry_delay < 0
                      THEN StreamExit(failed, IF s.recursion_depth = 1 THEN "raised"
                                              ELSE "ended")
                 ELSE [failed EXCEPT !.chunk_retry_delay = 2 * @,
                                     !.recursion_depth = @ + 1]]
    /\ UNCHANGED <<storeVars, countVars, settings, model_cache, lockVars, cache>>

\* ------------------------------------------------- the model list
\* What the upstream does with the listing request of
\* get_cached_models_list: a listing, an empty JSON object, or an error (a
\* status >= 400 or an exception).
ListingFetches == {"listing", "empty", "error"}
ModelsPath == <<<<"v1beta">>, <<"models">>>>

\* get_cached_models_list(api_key, path) at time t: <<what it returns, the
\* cache it leaves>>, with "" for None.
get_cached_models_list(c, api_key, t, fetch) ==
    IF api_key \in DOMAIN c /\ t - c[api_key].at < ModelCacheTimeout
    THEN <<c[api_key].result, c>>
    ELSE IF fetch = "error" THEN <<"", c>>
    ELSE <<fetch, Put(c, api_key, [at |-> t, result |-> fetch])>>

\* gemini_list_models(): the route of GET /v1beta/models and /v1/models.  The
\* local `path` is assigned inside `if model_cache_enabled:` only, so the
\* closing `return proxy(path)` raises UnboundLocalError when the setting is
\* off; with the setting on and no usable cached listing it calls proxy(),
\* which starts its own attempt loop.
gemini_list_models(r, fetch) ==
    LET t == now + 1
        id == GetNextKeyResult(keys, {}, t)
        got == get_cached_models_list(model_cache, keys[id].key_value, t, fetch) IN
    /\ req[r].pc = "route"
    /\ IF ~settings.model_cache_enabled
       THEN /\ req' = [req EXCEPT ![r].pc = "done", ![r].status = 500,
                                  ![r].error = "UnboundLocalError"]
            /\ UNCHANGED <<storeVars, model_cache>>
       ELSE /\ GetNextKeyStep({}, FALSE)
            /\ IF id = None
               THEN /\ req' = [req EXCEPT ![r].pc = "done", ![r].status = 503,
                                          ![r].error = "No healthy API keys available."]
                    /\ UNCHANGED model_cache
               ELSE /\ model_cache' = got[2]
                    /\ req' = IF got[1] = "listing"
                              THEN [req EXCEPT ![r].pc = "done", ![r].status = 200,
                                               ![r].body = [PlainBody EXCEPT !.text = "cached listing"]]
                              ELSE [req EXCEPT ![r].pc = "idle", ![r].path = ModelsPath]
    /\ UNCHANGED <<countVars, settings, lockVars, cache>>

\* ---------------------------------------------------------- time
\* Time passes between two store operations.
Tick(amount) ==
    /\ nticks < MaxTicks
    /\ nticks' = nticks + 1
    /\ now' = now + amount
    /\ UNCHANGED <<keys, nextId, nops, last, prev, run, proxyVars, daily, lockVars, cache>>

\* ------------------------------------------------------------- init
EnvTable(n) == [k \in 1..n |-> NewRow(EnvKeys[k])]

DefaultSettings ==
    [max_retries |-> 7, retry_total |-> 7, streaming_enabled |-> TRUE,
     connection_pooling_enabled |-> TRUE, enable_metrics_collection |-> TRUE,
     model_cache_enabled |-> TRUE, request_timeout |-> 30, connect_timeout |-> 10,
     read_timeout |-> 60, streaming_timeout |-> 120, max_stream_retries |-> 2,
     chunk_retry_delay |-> 1, json_buffer_limit |-> 2048, log_level |-> <<"INFO">>]

\* Everything but the keys table and the inbound requests.
QuietInit ==
    /\ now = 1
    /\ nops = 0
    /\ nticks = 0
    /\ last = NoOp
    /\ run = NoRun
    /\ daily = << >>
    /\ log = EmptyBag
    /\ lock = None
    /\ thr = [t \in Threads |-> IdleThread]
    /\ api_lock = None
    /\ cache = NoCache
    /\ model_cache = NoCache

\* Everything but the keys table at the start of a run.
IdleInit ==
    /\ QuietInit
    /\ req = [r \in Requests |-> IdleRequest]

StoreInit ==
    /\ \E n \in 0..MaxKeys : keys = EnvTable(n) /\ nextId = n + 1
    /\ prev = keys
    /\ IdleInit

Init ==
    /\ StoreInit
    /\ settings = DefaultSettings

\* Batches bulk_import_keys is called with.
Batches ==
    {<<v>> : v \in KeyValues} \cup {<<"key-10-chr", "key-10-chr">>, <<"", "key-11-char">>}

\* The store under every operation of its interface.
Next ==
    \/ \E amount \in TickSteps : nops < MaxOps /\ Tick(amount)
    \/ \E ex \in SUBSET Ids(keys) : nops < MaxOps /\ get_next_key(ex, FALSE)
    \/ \E k \in Ids(keys), o \in TrafficOutcomes :
          nops < MaxOps /\ update_key_stats(k, o[1], DefaultModel, o[2], 0, 0, 0)
    \/ \E v \in KeyValues : nops < MaxOps /\ add_key(v)
    \/ \E k \in Ids(keys), u \in UpdateInputs :
          nops < MaxOps /\ update_key(k, u[1], u[2], u[3])
    \/ \E ks \in SUBSET Ids(keys), s \in StatusInputs :
          nops < MaxOps /\ bulk_update_status(ks, s)
    \/ \E b \in Batches : nops < MaxOps /\ bulk_import_keys(b)

Spec == Init /\ [][Next]_vars

\* The store under proxy traffic alone: selections and reported outcomes.
TrafficNext ==
    \/ \E amount \in TickSteps : nops < MaxTraffic /\ Tick(amount)
    \/ \E ex \in SUBSET Ids(keys) : nops < MaxTraffic /\ get_next_key(ex, FALSE)
    \/ \E k \in Ids(keys), o \in TrafficOutcomes :
          nops < MaxTraffic /\ update_key_stats(k, o[1], DefaultModel, o[2], 0, 0, 0)

SpecTraffic == Init /\ [][TrafficNext]_vars

\* Reported outcomes alone: every (success, error_code) pair on every status.
OutcomesNext ==
    \/ \E amount \in TickSteps : nops < MaxOps /\ Tick(amount)
    \/ \E k \in Ids(keys), o \in Outcomes :
          nops < MaxOps /\ update_key_stats(k, o[1], DefaultModel, o[2], 0, 0, 0)

SpecOutcomes == Init /\ [][OutcomesNext]_vars

\* Statistics: threads inside update_key_stats, credentials being removed,
\* and days going by.
StatsNext ==
    \/ nticks < MaxTicks /\ Tick(SecondsPerDay)
    \/ \E t \in Threads, k \in 1..(nextId - 1), c \in StatCalls :
          nops < MaxStatCalls /\ UksEnter(t, <<k>> \o c)
    \/ \E t \in Threads : UksRead(t)
    \/ \E t \in Threads : UksWrite(t)
    \/ \E k \in 1..(nextId - 1) : nops < MaxStatCalls /\ remove_key(k)

SpecStats == Init /\ [][StatsNext]_vars

\* The proxy's threads inside get_next_key and the administrative routes, in
\* one process.
LockNext ==
    \/ nticks < MaxTicks /\ Tick(BulkRestSeconds)
    \/ \E t \in Threads, ex \in SUBSET Ids(keys) : nops < MaxOps /\ GnkEnter(t, ex)
    \/ \E t \in Threads : GnkHeal(t)
    \/ \E t \in Threads : GnkSelect(t)
    \/ \E t \in Threads : GnkStamp(t)
    \/ \E k \in Ids(keys), u \in UpdateInputs :
          nops < MaxOps /\ update_key_route(k, u[1], u[2], u[3])
    \/ \E ks \in SUBSET Ids(keys), st \in StatusInputs :
          nops < MaxOps /\ bulk_action_route(ks, st)

SpecLock == Init /\ [][LockNext]_vars

\* Stores with names and notes, built by the migration from the environment,
\* add_key and bulk_import_keys.
ExportInit ==
    /\ \E tbl \in MigratedTables :
          Len(tbl) <= MaxKeys /\ keys = tbl /\ nextId = Len(tbl) + 1
    /\ prev = keys
    /\ IdleInit
    /\ settings = DefaultSettings

ExportNext ==
    \/ \E v \in KeyValues, n \in NameInputs, t \in NoteInputs :
          nops < MaxOps /\ add_key_named(v, n, t)
    \/ \E x \in Entries : nops < MaxOps /\ bulk_import_entries(<<x>>)
    \/ \E x, y \in Entries : nops < MaxOps /\ bulk_import_entries(<<x, y>>)

SpecExport == ExportInit /\ [][ExportNext]_vars

\* The dashboard's statistics between reported outcomes and days going by.
GlobalNext ==
    \/ \E amount \in {CacheTtl, SecondsPerDay} : nops < MaxKpiOps /\ Tick(amount)
    \/ \E k \in Ids(keys), o \in TrafficOutcomes :
          nops < MaxKpiOps /\ update_key_stats(k, o[1], DefaultModel, o[2], 0, 0, 100)
    \/ \E days \in DaysInputs : nops < MaxKpiOps /\ get_global_stats(days)

SpecGlobal == Init /\ [][GlobalNext]_vars

\* The key list with KPIs between reported outcomes, additions of
\* credentials, and time going by.
KpiNext ==
    \/ \E amount \in {CacheTtl, SecondsPerDay} : nops < MaxKpiOps /\ Tick(amount)
    \/ \E k \in Ids(keys), c \in KpiCalls :
          nops < MaxKpiOps /\ update_key_stats(k, c[1], DefaultModel, c[2], 0, 0, c[3])
    \/ nops < MaxKpiOps /\ add_key("key-10-chr")
    \/ nops < MaxKpiOps /\ get_all_keys_with_kpi

SpecKpi == Init /\ [][KpiNext]_vars

\* Rotation alone: get_next_key calls, with and without exclusions.
RotationNext ==
    \E ex \in SUBSET Ids(keys), restart \in BOOLEAN :
        nops < MaxCalls /\ get_next_key(ex, restart)

SpecRotation == Init /\ [][RotationNext]_vars

\* Inbound requests running proxy() concurrently on the shared store.
ProxyInit ==
    /\ StoreInit
    /\ \E m \in {0, 1}, pooled \in BOOLEAN :
          settings = [DefaultSettings EXCEPT !.max_retries = m, !.retry_total = 0,
                                             !.connection_pooling_enabled = pooled]

ProxyNext ==
    \/ \E r \in Requests : ProxyStart(r)
    \/ \E r \in Requests : ProxyPick(r)
    \/ \E r \in Requests, a, u \in UpstreamAnswers, body \in {NoBody, PlainBody} :
          ProxySend(r, 1, a, u, body)

SpecProxy == ProxyInit /\ [][ProxyNext]_vars

\* One inbound request of every path, header set and body under the default
\* settings with no failover.
ForwardInit ==
    /\ (\E n \in 1..MaxKeys : keys = EnvTable(n) /\ nextId = n + 1)
    /\ prev = keys
    /\ QuietInit
    /\ \E seconds \in {5, 30} :
          settings = [DefaultSettings EXCEPT !.max_retries = 1, !.retry_total = 0,
                                             !.request_timeout = seconds]
    /\ \E p \in Paths, h \in InboundHeaders, d \in RequestBodies :
          req = [r \in Requests |->
                    IF r = 1 THEN [IdleRequest EXCEPT !.path = p, !.inbound = h, !.data = d]
                    ELSE IdleRequest]

ForwardNext ==
    \/ ProxyStart(1)
    \/ ProxyPick(1)
    \/ \E a \in UpstreamAnswers : ProxySend(1, 1, a, a, IF Ok(a) THEN PlainBody ELSE NoBody)

SpecForward == ForwardInit /\ [][ForwardNext]_vars

\* Two GET requests on the model list route, with the model cache on or off.
ModelsInit ==
    /\ (\E n \in 0..MaxKeys : keys = EnvTable(n) /\ nextId = n + 1)
    /\ prev = keys
    /\ QuietInit
    /\ req = [r \in Requests |-> [IdleRequest EXCEPT !.pc = "route"]]
    /\ \E enabled \in BOOLEAN :
          settings = [DefaultSettings EXCEPT !.model_cache_enabled = enabled,
                                             !.max_retries = 0, !.retry_total = 0]

ModelsNext ==
    \/ \E r \in Requests, fetch \in ListingFetches : gemini_list_models(r, fetch)
    \/ \E r \in Requests : ProxyStart(r)
    \/ \E r \in Requests : ProxyPick(r)
    \/ \E r \in Requests, a \in {200, 401, TransportError} :
          ProxySend(r, 1, a, a, IF Ok(a) THEN PlainBody ELSE NoBody)
    \/ nticks < MaxTicks /\ Tick(ModelCacheTimeout)

SpecModels == ModelsInit /\ [][ModelsNext]_vars

\* ------------------------------------------ POST /middleware/api/settings
\* A value of the JSON body as json.loads gives it: an int, a float (num
\* holds ten times the number; text <<"inf">> marks the float a literal such
\* as 1e400 is read as), or a str (text holds its characters, or the one
\* word of a name).
JsonValue(type, num, text) == [type |-> type, num |-> num, text |-> text]

\* The types of valid_settings for the keys of the model; chunk_retry_delay
\* is not in the table.
valid_settings == [max_retries |-> "int", request_timeout |-> "int", log_level |-> "str"]

\* The bounds of the "Additional validation for numeric values".
NumericRange == [max_retries |-> <<1, 20>>, request_timeout |-> <<5, 300>>]

\* The names log_level may have.
LogLevels == {<<"DEBUG">>, <<"INFO">>, <<"WARNING">>, <<"ERROR">>}

Digit == [c \in {"0", "1", "2", "3", "4", "5", "6", "7", "8", "9"} |-> CHOOSE n \in 0..9 : ToString(n) = c]

\* int(text) of decimal digits.
RECURSIVE IntOfDigits(_)
IntOfDigits(text) ==
    IF text = << >> THEN 0
    ELSE 10 * IntOfDigits(SubSeq(text, 1, Len(text) - 1)) + Digit[text[Len(text)]]

\* expected_type(value) where isinstance(value, expected_type) fails: int()
\* cuts the fraction of a float and raises OverflowError for infinity, and
\* raises ValueError for a str that is not a number; a value of the
\* expected type is kept.
Converted(value, expected_type) ==
    IF value.type = expected_type THEN [error |-> "", value |-> value]
    ELSE IF expected_type = "int" /\ value.type = "float"
    THEN IF value.text = <<"inf">> THEN [error |-> "OverflowError", value |-> value]
         ELSE [error |-> "",
               value |-> JsonValue("int", IF value.num >= 0 THEN value.num \div 10
                                          ELSE -((-value.num) \div 10), << >>)]
    ELSE IF expected_type = "int" /\ value.type = "str"
    THEN IF value.text # << >> /\ \A i \in 1..Len(value.text) : value.text[i] \in DOMAIN Digit
         THEN [error |-> "", value |-> JsonValue("int", IntOfDigits(value.text), << >>)]
         ELSE [error |-> "ValueError", value |-> value]
    ELSE [error |-> "TypeError", value |-> value]

\* One pass of `for key, value in data.items()`: the answer the pass returns
\* with (status 0: none, the loop goes on) and the value it puts into
\* validated_settings.  An exception other than ValueError and TypeError
\* reaches the handler of the route, which answers 500.
ValidatedItem(key, value) ==
    LET known == key \in DOMAIN valid_settings
        c == IF known THEN Converted(value, valid_settings[key])
             ELSE [error |-> "", value |-> value]
        v == c.value IN
    IF c.error \in {"ValueError", "TypeError"}
    THEN [status |-> 400, message |-> "Invalid value", value |-> v]
    ELSE IF c.error # "" THEN [status |-> 500, message |-> "Error updating settings", value |-> v]
    ELSE IF key \in DOMAIN NumericRange /\ ~(NumericRange[key][1] <= v.num /\ v.num <= NumericRange[key][2])
    THEN [status |-> 400, message |-> "must be between", value |-> v]
    ELSE IF key = "log_level" /\ v.text \notin LogLevels
    THEN [status |-> 400, message |-> "must be one of", value |-> v]
    ELSE [status |-> 0, message |-> "", value |-> v]

\* The loop over the items from the i-th on: the first answer returned, or
\* 200 with the validated settings.
RECURSIVE ValidateFrom(_, _, _)
ValidateFrom(data, i, validated_settings) ==
    IF i > Len(data)
    THEN [status |-> 200, message |-> "Settings updated successfully", validated |-> validated_settings]
    ELSE LET item == ValidatedItem(data[i][1], data[i][2]) IN
         IF item.status # 0
         THEN [status |-> item.status, message |-> item.message, validated |-> validated_settings]
         ELSE ValidateFrom(data, i + 1, Append(validated_settings, <<data[i][1], item.value>>))

\* KeyManager.update_settings: each value is stored as str(value), which the
\* readers of the setting turn back into the number or take as the name.
RECURSIVE update_settings(_, _)
update_settings(s, settings_dict) ==
    IF settings_dict = << >> THEN s
    ELSE LET key == Head(settings_dict)[1]
             value == Head(settings_dict)[2] IN
         update_settings([s EXCEPT ![key] = IF value.type = "str" THEN value.text ELSE value.num],
                         Tail(settings_dict))

\* The items a settings request is made of.
SettingsInputs ==
    ({"max_retries"} \X {JsonValue("int", 21, << >>), JsonValue("float", 209, << >>),
                         JsonValue("float", 0, <<"inf">>),
                         JsonValue("str", 0, <<"2", "1">>)})
    \cup ({"request_timeout"} \X {JsonValue("int", n, << >>) : n \in {4, 60}})
    \cup ({"log_level"} \X {JsonValue("str", 0, <<w>>) : w \in {"DEBUG", "INVALID"}})
    \cup ({"chunk_retry_delay"} \X {JsonValue("int", -1, << >>)})

\* The bodies of a settings request: objects of up to MaxBatch items in the
\* order they are written, each key once.
SettingsBatches ==
    {data \in UNION {[1..n -> SettingsInputs] : n \in 1..MaxBatch} :
        \A i, j \in 1..Len(data) : i # j => data[i][1] # data[j][1]}

\* POST /middleware/api/settings with the JSON object data.
update_settings_route(data) ==
    LET answer == ValidateFrom(data, 1, << >>) IN
    /\ settings' = IF answer.status = 200 THEN update_settings(settings, answer.validated)
                   ELSE settings
    /\ last' = [NoOp EXCEPT !.op = "update_settings", !.ok = (answer.status = 200),
                            !.code = answer.status, !.msg = answer.message, !.at = now,
                            !.result = data]
    /\ UNCHANGED <<keys, nextId, now, prev, run, daily, countVars, req, model_cache,
                   lockVars, cache>>

SettingsNext == \E data \in SettingsBatches : update_settings_route(data)

SettingsInit ==
    /\ keys = EnvTable(1) /\ nextId = 2
    /\ prev = keys
    /\ IdleInit
    /\ settings = DefaultSettings

SpecSettings == SettingsInit /\ [][SettingsNext]_vars

\* One request with streaming on, and the generator of its response.
StreamInit ==
    /\ (\E n \in 1..MaxKeys : keys = EnvTable(n) /\ nextId = n + 1)
    /\ prev = keys
    /\ IdleInit
    /\ \E pooled \in BOOLEAN, retries \in {0, 2}, delay \in {-1, 1}, limit \in {0, 3} :
          settings = [DefaultSettings EXCEPT !.max_retries = 1, !.retry_total = 0,
                                             !.connection_pooling_enabled = pooled,
                                             !.max_stream_retries = retries,
                                             !.chunk_retry_delay = delay,
                                             !.json_buffer_limit = limit]

StreamNext ==
    \/ ProxyStart(1)
    \/ ProxyPick(1)
    \/ \E a \in {200, 401, 503} : ProxySend(1, 1, a, a, IF Ok(a) THEN PlainBody ELSE NoBody)
    \/ ProxySend(1, 1, TransportError, 503, NoBody)
    \/ StreamStart(1)
    \/ \E n \in ChunkSizes : StreamChunk(1, n)
    \/ StreamResume(1)
    \/ StreamAbandon(1)
    \/ StreamEnd(1)
    \/ StreamFail(1)

SpecStream == StreamInit /\ [][StreamNext]_vars

\* One inbound request under every setting, upstream behaviour and body.
RelayInit ==
    /\ StoreInit
    /\ \E m \in 0..MaxRetries, total \in 0..MaxRetryTotal, streaming, pooled, metrics \in BOOLEAN :
          settings = [DefaultSettings EXCEPT !.max_retries = m, !.retry_total = total,
                                             !.streaming_enabled = streaming,
                                             !.connection_pooling_enabled = pooled,
                                             !.enable_metrics_collection = metrics]

RelayNext ==
    \/ ProxyStart(1)
    \/ ProxyPick(1)
    \/ \E n \in 1..(MaxRetryTotal + 2), a, u \in UpstreamAnswers,
          body \in Bodies \cup {NoBody} :
          ProxySend(1, n, a, u, body)

SpecRelay == RelayInit /\ [][RelayNext]_vars

\* ============================================================ claims
HealthyIn(ks) == {k \in Ids(ks) : ks[k].status = "Healthy"}

AllHealthy(ks) == Ids(ks) # {} /\ HealthyIn(ks) = Ids(ks)

\* The place of credential k when the table is ordered by last_rotated_at,
\* insertion order among equals.
RankIn(ks, k) ==
    1 + Cardinality({j \in Ids(ks) :
            \/ ks[j].last_rotated_at < ks[k].last_rotated_at
            \/ ks[j].last_rotated_at = ks[k].last_rotated_at /\ j < k})

\* A Resting row whose disabled_until lies before t.
RestOver(row, t) ==
    row.status = "Resting" /\ row.disabled_until # NULL /\ row.disabled_until < t

\* The credentials get_next_key may hand out at time t: Healthy once the
\* rows whose rest is over count as Healthy, and not excluded.
Eligible(ks, exclude_ids, t) ==
    {k \in Ids(ks) : /\ ks[k].status = "Healthy" \/ RestOver(ks[k], t)
                     /\ k \notin exclude_ids}

Called(op) == last.op = op

\* C1: from N >= 1 credentials that are all Healthy, the i-th of N successive
\* get_next_key() calls returns the credential that is i-th by previous
\* last_rotated_at (insertion order among equals), so each is returned once,
\* and call N + 1 returns what call 1 returned.
C1_RotationFairness ==
    (run.ids # << >> /\ AllHealthy(run.base)) =>
        LET N == Cardinality(Ids(run.base)) IN
        \A i \in 1..Len(run.ids) :
            /\ run.ids[i] \in Ids(run.base)
            /\ i <= N => RankIn(run.base, run.ids[i]) = i
            /\ i = N + 1 => run.ids[i] = run.ids[1]

\* N + 1 calls made on two or more credentials of which a later inserted one
\* was the less recently used.
C1_Witness ==
    /\ AllHealthy(run.base)
    /\ Cardinality(Ids(run.base)) >= 2
    /\ Len(run.ids) = Cardinality(Ids(run.base)) + 1
    /\ \E j, k \in Ids(run.base) :
          j < k /\ run.base[j].last_rotated_at > run.base[k].last_rotated_at

\* C2: get_next_key(exclude_ids) never returns a credential whose id is in
\* exclude_ids.
C2_ExclusionCorrect ==
    Called("get_next_key") => last.id \notin last.ids

\* A call that excluded the least recently used Healthy credential and
\* returned another one.
C2_Witness ==
    /\ Called("get_next_key")
    /\ last.id # None
    /\ \E x \in last.ids :
          /\ x \in Eligible(prev, {}, last.at)
          /\ \A j \in Eligible(prev, {}, last.at) : RankIn(prev, x) <= RankIn(prev, j)

\* C3: get_next_key returns None exactly when no credential is Healthy (after
\* the heal step) and not excluded; otherwise it returns such a credential
\* with the smallest last_rotated_at, and its row says Healthy.
C3_SelectsLeastRecentlyUsedHealthy ==
    Called("get_next_key") =>
        LET e == Eligible(prev, last.ids, last.at) IN
        /\ last.id = None <=> e = {}
        /\ last.id # None =>
              /\ last.id \in e
              /\ last.status = "Healthy"
              /\ keys[last.id].status = "Healthy"
              /\ \A j \in e : prev[last.id].last_rotated_at <= prev[j].last_rotated_at

\* A call that passed over a less recently used credential because it was
\* Disabled or still resting.
C3_Witness ==
    /\ Called("get_next_key")
    /\ last.id # None
    /\ \E k \in Ids(prev) \ last.ids :
          /\ prev[k].status # "Healthy"
          /\ ~RestOver(prev[k], last.at)
          /\ prev[k].last_rotated_at < prev[last.id].last_rotated_at

\* C4: after a get_next_key call every credential that was Resting with
\* disabled_until in the past is Healthy with disabled_until cleared, returned
\* or not, and the call leaves every Healthy credential Healthy; so it is
\* still Healthy after every further call of a run of calls.
C4_HealingIdempotent ==
    /\ Called("get_next_key") =>
          \A k \in Ids(prev) :
              (RestOver(prev[k], last.at) \/ prev[k].status = "Healthy") =>
                  keys[k].status = "Healthy" /\ keys[k].disabled_until = NULL
    /\ run.ids # << >> =>
          \A k \in Ids(run.base) :
              RestOver(run.base[k], run.at) =>
                  keys[k].status = "Healthy" /\ keys[k].disabled_until = NULL

\* Two calls in a row, the first of which healed a credential it did not
\* return.
C4_Witness ==
    /\ Len(run.ids) = 2
    /\ \E k \in Ids(run.base) : RestOver(run.base[k], run.at) /\ k # run.ids[1]

C6_StatusTransitionTable ==
    Called("update_key_stats") =>
        \A k \in last.ids \cap Ids(prev) :
            /\ (last.ok /\ last.code = None /\ prev[k].status = "Resting") =>
                  keys[k].status = "Healthy" /\ keys[k].disabled_until = NULL
            /\ (last.ok /\ last.code = None /\ prev[k].status # "Resting") =>
                  keys[k] = prev[k]
            /\ (~last.ok /\ last.code = 429) =>
                  keys[k].status = "Resting" /\ keys[k].disabled_until = last.at + RestSeconds
            /\ (~last.ok /\ last.code \in {400, 401, 403}) =>
                  keys[k].status = "Disabled" /\ keys[k].disabled_until = NULL
            /\ (~last.ok /\ last.code \notin {429, 400, 401, 403}) =>
                  keys[k] = prev[k]

\* A 403 reported for a credential that was Resting.
C6_Witness ==
    /\ Called("update_key_stats")
    /\ last.code = 403
    /\ \E k \in last.ids : prev[k].status = "Resting" /\ keys[k].status = "Disabled"

\* C7: a Disabled credential stays Disabled through every get_next_key and
\* update_key_stats call that requests make.
C7_DisabledStaysDisabled ==
    [][\A k \in Ids(keys) : keys[k].status = "Disabled" => keys'[k].status = "Disabled"]_vars

\* C8: a credential has a disabled_until exactly when it is Resting.
C8_UntilIffResting ==
    \A k \in Ids(keys) : keys[k].disabled_until # NULL <=> keys[k].status = "Resting"

\* update_key gave a status to a credential that was Resting.
C8_Witness ==
    /\ Called("update_key")
    /\ last.ok
    /\ \E k \in last.ids : prev[k].status = "Resting" /\ keys[k].status = "Disabled"

C10_TriedKeysDistinct ==
    \A r \in Requests :
        LET tried == req[r].tried_key_ids IN
        /\ \A i, j \in 1..Len(tried) : i # j => tried[i] # tried[j]
        /\ req[r].pc = "send" => tried # << >> /\ tried[Len(tried)] = req[r].key_id
        /\ Len(tried) <= req[r].attempt + 1

\* A request at its third attempt.
C10_Witness ==
    \E r \in Requests : Len(req[r].tried_key_ids) >= 2 /\ req[r].pc = "send"

\* The sum of the values of a finite mapping.
RECURSIVE Sum(_)
Sum(f) ==
    IF DOMAIN f = {} THEN 0
    ELSE LET x == CHOOSE x \in DOMAIN f : TRUE
         IN  f[x] + Sum([y \in DOMAIN f \ {x} |-> f[y]])

\* What the proxy is to report to the store for what an attempt got: a
\* success for a status below 400, a failure with the status otherwise, and
\* a failure with 599 for a transport exception.
Reported(key_id, seen) ==
    IF seen = TransportError THEN <<key_id, FALSE, 599>>
    ELSE IF seen < 400 THEN <<key_id, TRUE, None>>
    ELSE <<key_id, FALSE, seen>>

\* The update_key_stats calls a request made with these arguments.
RecordedAs(q, call) ==
    {j \in 1..Len(q.recorded) : <<q.recorded[j][1], q.recorded[j][2], q.recorded[j][3]>> = call}

\* C11: an upstream answer with status >= 400 other than 503 is the last of
\* its request and is relayed with its status; an attempt is followed by
\* another only when the upstream answered 503 or the transport failed, and
\* attempt < max_retries.
C11_OtherErrorsEndRequest ==
    \A r \in Requests :
        LET q == req[r] IN
        \A i \in 1..Len(q.answers) :
            LET u == q.answers[i].upstream IN
            /\ (u # TransportError /\ u >= 400 /\ u # 503) =>
                  /\ i = Len(q.answers)
                  /\ q.pc = "done" /\ q.status = u /\ q.error = ""
            /\ i < Len(q.answers) =>
                  (u = 503 \/ u = TransportError) /\ i - 1 < q.max_retries

C13_UpstreamPassthroughAtZeroRetries ==
    \A r \in Requests :
        LET q == req[r] IN
        (q.pc = "done" /\ q.max_retries = 0 /\ Len(q.answers) = 1
         /\ q.answers[1].upstream = 503) =>
            q.status = 503 /\ q.error = "" /\ q.calls = 1

\* C14: a request whose first selection finds no Healthy credential (none
\* resting past its time either) ends with 503 "No healthy API keys
\* available." and has sent nothing to the upstream.
C14_NoHealthyKeys ==
    [][\A r \in Requests :
          (/\ req[r].pc = "pick" /\ req[r].attempt = 0
           /\ req'[r] # req[r]
           /\ Eligible(keys, {}, now + 1) = {}) =>
              /\ req'[r].pc = "done"
              /\ req'[r].status = 503
              /\ req'[r].error = "No healthy API keys available."
              /\ req'[r].calls = 0 /\ req'[r].sent = 0]_vars

\* A request that found every credential of a non-empty table Disabled.
C14_Witness ==
    \E r \in Requests :
        /\ req[r].pc = "done" /\ req[r].calls = 0
        /\ req[r].error = "No healthy API keys available."
        /\ Ids(keys) # {}
        /\ \A k \in Ids(keys) : keys[k].status = "Disabled"

\* What follows attempt i of a request that raised a transport exception:
\* another attempt when attempt < max_retries, with the credential in
\* tried_key_ids, and 502 "Middleware network error" otherwise.
AfterException(q, i) ==
    /\ \E j \in 1..Len(q.tried_key_ids) : q.tried_key_ids[j] = q.answers[i].key_id
    /\ i - 1 < q.max_retries =>
          \/ Len(q.answers) > i
          \/ q.pc = "pick" /\ q.attempt = i
          \/ q.pc = "send" /\ q.attempt = i
          \/ q.pc = "done" /\ q.error = "No healthy API keys available."
    /\ i - 1 >= q.max_retries =>
          /\ i = Len(q.answers)
          /\ q.pc = "done" /\ q.status = 502 /\ q.error = "Middleware network error"

\* C15 as claimed: every attempt that raised a transport exception has a
\* failure with code 599 recorded for its credential, and is followed by
\* another attempt or by 502 "Middleware network error".
C15_ExceptionRecordedAndHandled ==
    \A r \in Requests :
        \A i \in 1..Len(req[r].answers) :
            req[r].answers[i].seen = TransportError =>
                /\ RecordedAs(req[r], <<req[r].answers[i].key_id, FALSE, 599>>) # {}
                /\ AfterException(req[r], i)

\* C15 as amended: the failure with code 599 is recorded when
\* enable_metrics_collection is on and nothing is recorded when it is off;
\* what follows the attempt is the same either way.
C15_ExceptionHandled ==
    \A r \in Requests :
        /\ ~settings.enable_metrics_collection => req[r].recorded = << >>
        /\ \A i \in 1..Len(req[r].answers) :
              req[r].answers[i].seen = TransportError =>
                  /\ settings.enable_metrics_collection =>
                        RecordedAs(req[r], <<req[r].answers[i].key_id, FALSE, 599>>) # {}
                  /\ AfterException(req[r], i)

\* A transport exception followed by another attempt, and one at the last
\* attempt answered with 502, both recorded.
C15_Witness ==
    \E r \in Requests :
        LET q == req[r] IN
        /\ q.pc = "done" /\ q.status = 502
        /\ Len(q.answers) >= 2
        /\ \A i \in 1..Len(q.answers) : q.answers[i].seen = TransportError
        /\ Len(q.recorded) = Len(q.answers)

\* C16 as claimed: the j-th update_key_stats call of a request is the report
\* of its j-th completed attempt, for the credential of that attempt, and
\* there is one for every completed attempt.
C16_OneReportPerAttempt ==
    \A r \in Requests :
        /\ Len(req[r].recorded) = Len(req[r].answers)
        /\ \A j \in 1..Len(req[r].recorded) :
              <<req[r].recorded[j][1], req[r].recorded[j][2], req[r].recorded[j][3]>>
                  = Reported(req[r].answers[j].key_id, req[r].answers[j].seen)

\* C16 as amended: with enable_metrics_collection on, every completed attempt
\* is reported by exactly one update_key_stats call for its credential, and
\* the daily_stats rows count those calls; with it off no attempt is
\* reported and no credential changes status.
C16_OneReportPerAttemptWithMetrics ==
    LET q == req[1] IN
    /\ settings.enable_metrics_collection =>
          /\ Len(q.recorded) = Len(q.answers)
          /\ \A j \in 1..Len(q.recorded) :
                <<q.recorded[j][1], q.recorded[j][2], q.recorded[j][3]>>
                    = Reported(q.answers[j].key_id, q.answers[j].seen)
          /\ \A k \in Ids(keys) :
                Sum([i \in {i \in DOMAIN daily : daily[i].key_id = k} |-> daily[i].requests])
                    = Cardinality({j \in 1..Len(q.recorded) : q.recorded[j][1] = k})
    /\ ~settings.enable_metrics_collection =>
          /\ q.recorded = << >>
          /\ daily = << >>
          /\ \A k \in Ids(keys) : keys[k].status = "Healthy"

\* A request that failed over after a transport exception and was then
\* answered 429: two reports, the second one resting its credential.
C16_Witness ==
    /\ settings.enable_metrics_collection
    /\ Len(req[1].recorded) = 2
    /\ req[1].recorded[1][3] = 599
    /\ req[1].recorded[2][3] = 429
    /\ keys[req[1].recorded[2][1]].status = "Resting"

\* C17: the success reported for a credential carries the token counts of
\* the response body, in streaming mode and in buffered mode.
C17_TokensRecorded ==
    \A r \in Requests :
        \A j \in 1..Len(req[r].recorded) :
            req[r].recorded[j][2] =>
                <<req[r].recorded[j][4], req[r].recorded[j][5]>> = TokensOf(req[r].body)


\* The different update_key_stats calls that returned for a credential and day.
Logged(key_id, date) == {e \in BagToSet(log) : e.key_id = key_id /\ e.date = date}

\* How many calls a set of logged calls stands for.
Calls(S) == Sum([e \in S |-> log[e]])

\* C18: every update_key_stats call that returns adds 1 to requests and
\* latency_ms to total_latency_ms of the row of its credential and day, and
\* either 1 to successes (with its tokens and 1 for its model) or 1 to errors
\* (with 1 for its error code when one is given); so in every row requests =
\* successes + errors and the model-usage counts sum to successes.
C18_DailyStatAccounting ==
    \A i \in DOMAIN daily :
        LET r == daily[i]
            all == Logged(r.key_id, r.date)
            good == {e \in all : e.success}
            bad == all \ good IN
        /\ r.requests = Calls(all)
        /\ r.total_latency_ms = Sum([e \in all |-> log[e] * e.latency_ms])
        /\ r.successes = Calls(good)
        /\ r.tokens_in = Sum([e \in good |-> log[e] * e.tokens_in])
        /\ r.tokens_out = Sum([e \in good |-> log[e] * e.tokens_out])
        /\ r.errors = Calls(bad)
        /\ Sum(r.error_codes) = Calls({e \in bad : e.error_code # None})
        /\ r.requests = r.successes + r.errors
        /\ Sum(r.model_usage) = r.successes

\* A row that counted a success with tokens, and a row that counted a failure
\* that came without an error code.
C18_Witness ==
    /\ \E i \in DOMAIN daily : daily[i].successes >= 1 /\ daily[i].tokens_out > 0
    /\ \E i \in DOMAIN daily : daily[i].errors >= 1 /\ daily[i].error_codes = << >>

\* C19: whatever the interleaving of the threads inside update_key_stats,
\* there is exactly one row for a credential and day that a call returned
\* for, its requests is the number of those calls, and its model_usage and
\* error_codes count every one of them.
C19_NoLostIncrement ==
    /\ \A i, j \in DOMAIN daily :
          StatOf(daily[j], daily[i].key_id, daily[i].date) => i = j
    /\ \A e \in BagToSet(log) :
          \E i \in DOMAIN daily :
              LET r == daily[i]
                  all == Logged(e.key_id, e.date) IN
              /\ StatOf(r, e.key_id, e.date)
              /\ r.requests = Calls(all)
              /\ e.success =>
                    CountIn(r.model_usage, e.model_name) =
                        Calls({x \in all : x.success /\ x.model_name = e.model_name})
              /\ (~e.success /\ e.error_code # None) =>
                    CountIn(r.error_codes, ToString(e.error_code)) =
                        Calls({x \in all : ~x.success /\ x.error_code = e.error_code})

\* Two calls for one credential and day returned, both successes, for two
\* models.
C19_Witness ==
    \E i \in DOMAIN daily :
        /\ daily[i].requests = 2
        /\ Cardinality(DOMAIN daily[i].model_usage) = 2

\* C20: no daily_stats row refers to a credential that is not in the keys
\* table.
C20_NoOrphanDailyStat ==
    \A i \in DOMAIN daily : daily[i].key_id \in Ids(keys)

\* A step of an administrative route: a store operation that no thread of
\* the proxy performed.
AdminOps == {"add_key", "update_key", "remove_key", "bulk_update_status", "bulk_import_keys"}

AdminStep == thr' = thr /\ nops' = nops + 1 /\ last'.op \in AdminOps

InsideStoreOperation == \E t \in Threads : thr[t].pc # "idle"

\* C21: the store operations of the proxy and of the administrative routes
\* are serialized by one lock: while a thread of the proxy is inside
\* get_next_key or update_key_stats, no administrative store operation runs.
C21_StoreOperationsSerialized ==
    [][InsideStoreOperation => ~AdminStep]_vars

\* No two rows of the keys table hold the same key_value.
SecretsUnique ==
    \A j, k \in Ids(keys) : keys[j].key_value = keys[k].key_value => j = k

\* add_key, update_key and bulk_import_keys given a secret that another
\* credential already has: the message says so and the table stays as it was.
DuplicateRejected ==
    /\ \A v \in KeyValues :
          (add_key(v) /\ ValueExists(keys, v)) =>
              (last'.msg = "Key exists." /\ keys' = keys)
    /\ \A k \in Ids(keys), u \in UpdateInputs :
          (/\ update_key(k, u[1], u[2], u[3])
           /\ \E j \in Ids(keys) \ {k} : keys[j].key_value = u[1]) =>
              (last'.msg = "Update failed." /\ keys' = keys)
    /\ \A b \in Batches :
          (/\ bulk_import_keys(b)
           /\ \A i \in 1..Len(b) : ValueExists(keys, b[i])) =>
              (last'.id = Len(b) /\ keys' = keys)

\* C22: no two credentials ever have the same secret, and add_key, update_key
\* and bulk_import_keys reject a secret that already exists ("Key exists.",
\* "Update failed.", a skipped entry) and leave the store unchanged.
C22_SecretsUniqueAndDuplicatesRejected ==
    []SecretsUnique /\ [][DuplicateRejected]_vars

\* The credentials a step added to the keys table.
Added == Ids(keys') \ Ids(keys)

\* C23: add_key fails with "Invalid key." and adds nothing when the secret is
\* empty or shorter than 10 characters; when it succeeds the table has one
\* more credential, which is Healthy with no disabled_until and
\* last_rotated_at = epoch, so whenever it is not excluded the next
\* get_next_key returns it or another credential that was never selected,
\* and none that has already been selected.
C23_AddKey ==
    [][\A v \in KeyValues :
          add_key(v) =>
            /\ (v = "" \/ Len(v) < MinKeyLen) =>
                  (~last'.ok /\ last'.msg = "Invalid key." /\ keys' = keys)
            /\ (Len(v) >= MinKeyLen /\ ~ValueExists(keys, v)) => last'.ok
            /\ last'.ok =>
                  /\ Cardinality(Added) = 1
                  /\ \A k \in Ids(keys) : k \in Ids(keys') /\ keys'[k] = keys[k]
                  /\ \A id \in Added :
                        /\ keys'[id] = [key_value |-> v, status |-> "Healthy",
                                        disabled_until |-> NULL,
                                        last_rotated_at |-> Epoch]
                        /\ \A k \in Ids(keys) :
                              keys[k].last_rotated_at > Epoch =>
                                  RankIn(keys', id) < RankIn(keys', k)
                        /\ \A ex \in SUBSET Ids(keys) :
                              LET r == GetNextKeyResult(keys', ex, now' + 1) IN
                              r # None /\ keys'[r].last_rotated_at = Epoch]_vars

\* add_key has just added a credential to a table that holds a credential
\* which was selected before.
C23_Witness ==
    /\ Called("add_key") /\ last.ok
    /\ \E k \in Ids(prev) : prev[k].last_rotated_at > Epoch
    /\ \E id \in Ids(keys) \ Ids(prev) : keys[id].last_rotated_at = Epoch

\* The statuses update_key accepts.
Settable == {"Healthy", "Disabled"}

\* C24: update_key changes a credential's status only to Healthy or Disabled,
\* and then to the status asked for, with disabled_until cleared; a requested
\* status of Resting or any other value leaves status and disabled_until as
\* they were; a call with no name, note or secret and no status of the two
\* returns "No valid data." and changes nothing.
C24_UpdateKeyStatus ==
    [][\A k \in Ids(keys), u \in UpdateInputs :
          update_key(k, u[1], u[2], u[3]) =>
            /\ keys'[k].status # keys[k].status =>
                  (keys'[k].status \in Settable /\ keys'[k].status = u[2])
            /\ (u[2] \in Settable /\ last'.ok) =>
                  (keys'[k].status = u[2] /\ keys'[k].disabled_until = NULL)
            /\ u[2] \notin Settable =>
                  /\ keys'[k].status = keys[k].status
                  /\ keys'[k].disabled_until = keys[k].disabled_until
            /\ (u[1] = "" /\ u[2] \notin Settable /\ ~u[3]) =>
                  (~last'.ok /\ last'.msg = "No valid data." /\ keys' = keys)
            /\ \A j \in Ids(keys) \ {k} : keys'[j] = keys[j]]_vars

\* update_key has just set the status of a Resting credential.
C24_Witness ==
    /\ Called("update_key") /\ last.ok /\ last.status \in Settable
    /\ \E k \in last.ids :
          /\ prev[k].status = "Resting" /\ prev[k].disabled_until # NULL
          /\ keys[k].status = last.status /\ keys[k].disabled_until = NULL

\* C25: bulk_update_status(ids, status) with ids not empty and status one of
\* Healthy, Disabled, Resting gives exactly the listed credentials that
\* status, with disabled_until = now + 3600 s for Resting and NULL otherwise,
\* and leaves every other credential and column as it was; with no ids or
\* any other status it fails and changes nothing.
C25_BulkUpdateStatus ==
    [][\A ks \in SUBSET Ids(keys), s \in StatusInputs :
          bulk_update_status(ks, s) =>
            IF ks # {} /\ s \in Statuses
            THEN /\ last'.ok
                 /\ Ids(keys') = Ids(keys)
                 /\ \A k \in ks :
                       keys'[k] =
                         [keys[k] EXCEPT
                            !.status = s,
                            !.disabled_until = IF s = "Resting"
                                               THEN now' + BulkRestSeconds
                                               ELSE NULL]
                 /\ \A k \in Ids(keys) \ ks : keys'[k] = keys[k]
            ELSE ~last'.ok /\ keys' = keys]_vars

\* bulk_update_status has just rested one of two credentials.
C25_Witness ==
    /\ Called("bulk_update_status") /\ last.ok /\ last.status = "Resting"
    /\ \E k \in last.ids : keys[k].status = "Resting" /\ keys[k].disabled_until # NULL
    /\ \E k \in Ids(keys) \ last.ids : keys[k] = prev[k]

\* The secrets of the keys table.
Secrets(ks) == {ks[k].key_value : k \in Ids(ks)}

\* C26: bulk_import_keys returns imported + skipped = len(batch); an entry
\* whose secret is missing, shorter than 10 characters or already present is
\* skipped and the entries after it are still imported; importing the same
\* batch once more imports 0, skips len(batch) and changes nothing.
C26_BulkImportCounts ==
    [][\A b \in Batches :
          bulk_import_keys(b) =>
            LET imported == last'.code
                skipped == last'.id
                again == ImportResult(keys', nextId', b) IN
            /\ imported + skipped = Len(b)
            /\ imported = Cardinality(Added)
            /\ \A k \in Ids(keys) : k \in Ids(keys') /\ keys'[k] = keys[k]
            /\ \A i \in 1..Len(b) :
                  IF b[i] = "" \/ Len(b[i]) < MinKeyLen
                  THEN b[i] \notin Secrets(keys')
                  ELSE b[i] \in Secrets(keys')
            /\ Secrets(keys') \subseteq Secrets(keys) \cup {b[i] : i \in 1..Len(b)}
            /\ again.imported = 0 /\ again.skipped = Len(b) /\ again.keys = keys']_vars

\* bulk_import_keys has just imported one entry of a batch and skipped
\* another.
C26_Witness ==
    /\ Called("bulk_import_keys")
    /\ last.code >= 1 /\ last.id >= 1
    /\ Cardinality(Ids(keys)) = Cardinality(Ids(prev)) + last.code

\* The (name, secret, note) tuples of a table.
Tuples(ks) == {<<ks[k].name, ks[k].key_value, ks[k].note>> : k \in Ids(ks)}

\* The table of an empty store after bulk_import_keys of what
\* get_all_keys_for_export returns for the store.
Reimported == ImportEntries(<< >>, 1, get_all_keys_for_export(keys)).keys

\* C27: exporting all credentials and importing that list into an empty
\* store gives the same set of (name, secret, note) tuples.
C27_ExportImportRoundTrip == Tuples(Reimported) = Tuples(keys)

\* The KPI list the latest get_all_keys_with_kpi returned.
KpiListed == Called("get_all_keys_with_kpi")

\* The row of today's requests of a credential at the time of the latest
\* call, or << >>.
StatsNow(k) == TodayStats(daily, k, Date(last.at))

IsTruncatedKpi(index, stat) ==
    LET den == 5000 * stat.requests
        num == 70 * stat.successes * 5000 + 30 * Max0(den - stat.total_latency_ms) IN
    index * den <= num /\ num < (index + 1) * den

AuthNames(h) == {k \in DOMAIN h : Lower(k) \in {"authorization", "x-goog-api-key"}}

\* The values the client sent under Host, Authorization or x-goog-api-key.
InboundSecrets(inbound) == {inbound[n] : n \in {x \in DOMAIN inbound : Lower(x) \in excluded_headers}}

\* C29: on every attempt the forwarded headers hold no inbound Host,
\* Authorization or x-goog-api-key value and exactly one auth header:
\* Authorization: Bearer <secret> for the openai format, x-goog-api-key:
\* <secret> for the gemini format, with the secret of the credential selected
\* for the attempt, whatever auth headers the client sent.
C29_ForwardedAuth ==
    \A r \in Requests :
        \A i \in 1..Len(req[r].answers) :
            LET q == req[r]
                h == q.answers[i].headers
                secret == keys[q.answers[i].key_id].key_value IN
            /\ \A k \in DOMAIN h : Lower(k) # "host" /\ h[k] \notin InboundSecrets(q.inbound)
            /\ q.provider_format = "openai" =>
                  AuthNames(h) = {"Authorization"} /\ h["Authorization"] = <<"Bearer", secret>>
            /\ q.provider_format = "gemini" =>
                  AuthNames(h) = {"x-goog-api-key"} /\ h["x-goog-api-key"] = <<secret>>
            /\ q.provider_format \in {"openai", "gemini"}

\* An openai request that came with an Authorization and a native key header
\* of its own and went upstream twice, with two credentials.
C29_Witness ==
    LET q == req[1] IN
    /\ q.provider_format = "openai"
    /\ {"Authorization", "X-Goog-Api-Key", "x-goog-api-key"} \subseteq DOMAIN q.inbound
    /\ Len(q.answers) = 2
    /\ q.answers[1].key_id # q.answers[2].key_id
    /\ q.answers[1].headers["Authorization"] # q.answers[2].headers["Authorization"]

\* The model field of the JSON body of a request, << >> when the body is not
\* JSON or has no such field.
ModelField(q) ==
    IF GetJson(q.inbound, q.data) # << >> THEN q.data.model ELSE << >>

\* The model name the openai rule gives a request.
OpenaiModelName(q) ==
    IF ModelField(q) # << >> THEN ModelField(q)[1]
    ELSE IF EndsWithModels(q.path) THEN "model-discovery"
    ELSE "unknown"

\* C30: for an openai-format request whose JSON body has a model field, the
\* model name used for telemetry is the value of that field; otherwise it is
\* "model-discovery" if the path ends in "/models", else "unknown".  The name
\* is the one proxy() holds after its extraction and the one under which the
\* daily statistics count the request's successes.
C30_OpenaiModelName ==
    \A r \in Requests :
        LET q == req[r] IN
        (q.pc # "idle" /\ q.provider_format = "openai") =>
            /\ q.model_name = OpenaiModelName(q)
            /\ \A i \in 1..Len(daily) : DOMAIN daily[i].model_usage \subseteq {OpenaiModelName(q)}

\* The terminal responses of proxy(): the relayed answer of the last attempt,
\* 503 for want of a Healthy credential, 502 after a transport error.
Terminal(q) ==
    \/ /\ q.error = "" /\ q.answers # << >>
       /\ q.answers[Len(q.answers)].seen # TransportError
       /\ q.status = q.answers[Len(q.answers)].seen
    \/ q.error = "No healthy API keys available." /\ q.status = 503
    \/ /\ q.error = "Middleware network error" /\ q.status = 502
       /\ q.answers # << >> /\ q.answers[Len(q.answers)].seen = TransportError

FramedRow(row, k, id, t) ==
    LET healed == IF RestOver(row, t)
                  THEN [row EXCEPT !.status = "Healthy", !.disabled_until = NULL]
                  ELSE row IN
    IF k = id THEN [healed EXCEPT !.last_rotated_at = t] ELSE healed

\* C39: get_next_key changes nothing except turning expired Resting
\* credentials Healthy and setting last_rotated_at of the credential it
\* returns: Disabled credentials, unexpired Resting credentials and the
\* last_rotated_at of every credential it does not return stay as they were,
\* no last_rotated_at changes when it returns None, and the daily_stats rows
\* and the settings are left alone.
C39_GetNextKeyFrame ==
    /\ [](Called("get_next_key") =>
             /\ Ids(keys) = Ids(prev)
             /\ \A k \in Ids(prev) :
                   /\ keys[k] = FramedRow(prev[k], k, last.id, last.at)
                   /\ prev[k].status = "Disabled" => keys[k] = prev[k]
                   /\ (prev[k].status = "Resting" /\ ~RestOver(prev[k], last.at)) =>
                         keys[k] = prev[k]
                   /\ k # last.id => keys[k].last_rotated_at = prev[k].last_rotated_at
                   /\ k = last.id => prev[k].status # "Disabled")
    /\ [][(last' # last /\ last'.op = "get_next_key") =>
             /\ daily' = daily /\ settings' = settings /\ nextId' = nextId
             /\ prev' = keys]_vars

\* A call that returned one credential and healed another whose rest was
\* over, leaving the rotation time of that one alone.
C39_Witness ==
    /\ Called("get_next_key") /\ last.id # None
    /\ \E k \in Ids(prev) \ {last.id} :
          /\ RestOver(prev[k], last.at) /\ keys[k].status = "Healthy"
          /\ keys[k].last_rotated_at = prev[k].last_rotated_at
          /\ keys[k].last_rotated_at # last.at

\* C36: get_global_stats(days) returns the per-day sums across credentials
\* over the last `days` days, whatever get_global_stats calls came before:
\* the aggregate of the table as it is, or one computed for the same days
\* less than the cache's ten seconds ago.
C36_GlobalStatsForDays ==
    [][\A days \in DaysInputs :
          get_global_stats(days) =>
             \/ last'.result = compute_global_stats(daily, days, Date(last'.at))
             \/ /\ CacheHit(cache, "global_stats", last'.at)
                /\ cache["global_stats"].days = days]_vars

\* C40: a GET on the model list route ends in a cached listing, a response of
\* the attempt loop, or 503 "No healthy API keys available." with the model
\* cache on and with it off, and with it off the request goes through the
\* attempt loop.
C40_ModelListEnds ==
    \A r \in Requests :
        LET q == req[r] IN
        q.pc = "done" =>
            /\ \/ q.status = 200 /\ q.calls = 0 /\ q.body.text = "cached listing"
               \/ Terminal(q)
            /\ ~settings.model_cache_enabled =>
                  q.tried_key_ids # << >> \/ q.error = "No healthy API keys available."

\* C35: each upstream attempt of a request is issued with a fresh timeout
\* whose value is the request_timeout setting (for connecting and for
\* reading), whatever time the earlier attempts took.
C35_TimeoutPerAttempt ==
    \A r \in Requests :
        \A i \in 1..Len(req[r].answers) :
            req[r].answers[i].timeout = <<settings.request_timeout, settings.request_timeout>>

\* C31: when reading the upstream stream fails, stream_with_retry retries at
\* most max_stream_retries times in a row; when they are used up it yields
\* nothing more and ends normally, and it never raises to its consumer.
C31_StreamRetriesBounded ==
    \A r \in Requests :
        LET s == req[r].stream IN
        /\ s.retry_count <= s.max_stream_retries + 1
        /\ s.pc \in {"loop", "yielded"} => s.retry_count <= s.max_stream_retries
        /\ s.retry_count > s.max_stream_retries => s.pc = "ended"
        /\ s.pc # "raised"

\* C32: the upstream response given to stream_with_retry is closed on every
\* exit of the generator (normal end, read error with or without retries
\* left, the consumer abandoning it after a disconnect), and not before.
C32_StreamClosesResponse ==
    \A r \in Requests :
        LET s == req[r].stream IN
        /\ s.pc \in {"ended", "raised", "abandoned"} => s.closes >= 1
        /\ s.pc \in {"ready", "loop", "yielded"} => s.closes = 0

\* A generator abandoned by its consumer after a read error and a retry.
C32_Witness ==
    /\ req[1].stream.pc = "abandoned"
    /\ req[1].stream.errors >= 1
    /\ req[1].stream.closes >= 2

\* The first n bytes of the upstream body, n cut to 0..pos.
RelayedPrefix(limit, pos) == SubSeq(UpstreamBytes, 1, IF limit < pos THEN limit ELSE pos)

\* C33: during a streamed success response the side buffer never holds more
\* than json_buffer_limit bytes and is the first min(json_buffer_limit,
\* bytes relayed) bytes of the upstream stream, a chunk being yielded to the
\* client before it is added: while the generator waits at the yield the
\* buffer is the prefix of the bytes relayed before that chunk.
C33_SideBufferIsPrefix ==
    \A r \in Requests :
        LET s == req[r].stream
            limit == settings.json_buffer_limit IN
        s.kind = "generate" =>
            /\ Len(s.json_start_buffer) <= limit
            /\ s.pc \in {"loop", "ended", "raised"} =>
                  s.json_start_buffer = RelayedPrefix(limit, s.pos)
            /\ s.pc \in {"yielded", "abandoned"} =>
                  s.json_start_buffer = RelayedPrefix(limit, s.pos - s.last_chunk)

\* A chunk of two bytes of which the side buffer took one.
C33_Witness ==
    LET s == req[1].stream IN
    /\ s.kind = "generate" /\ s.pc = "loop"
    /\ s.last_chunk = 2 /\ s.pos = 4
    /\ settings.json_buffer_limit = 3 /\ s.json_start_buffer = <<1, 2, 3>>

\* C38: every upstream response obtained in the attempt loop is closed when
\* the inbound request is finished (proxy() has returned and the generator of
\* a streamed response has exited), the 503 response of an attempt given up
\* for failover with streaming on included.
C38_ResponsesClosed ==
    \A r \in Requests :
        LET q == req[r] IN
        (q.pc = "done" /\ q.stream.pc \in {"none", "ended", "raised", "abandoned"}) =>
            \A i \in 1..Len(q.answers) :
                /\ q.answers[i].resp # "open"
                /\ q.answers[i].resp = "streamed" => q.stream.closes >= 1

\* C34: the settings update endpoint answers 400 to a request with a
\* recognized key whose value lies outside its documented range or set
\* (max_retries outside 1..20, request_timeout outside 5..300, log_level not
\* one of the four names), and a request that is rejected persists none of
\* its settings, valid ones listed before the offending key included.
OutsideRange(key, value) ==
    \/ /\ key \in DOMAIN NumericRange
       /\ \/ value.type = "int" /\ ~(NumericRange[key][1] <= value.num /\ value.num <= NumericRange[key][2])
          \/ value.type = "float" /\ value.text = <<"inf">>
          \/ value.type = "float" /\ ~(10 * NumericRange[key][1] <= value.num /\ value.num <= 10 * NumericRange[key][2])
          \/ /\ value.type = "str" /\ Converted(value, "int").error = ""
             /\ LET n == Converted(value, "int").value.num IN
                ~(NumericRange[key][1] <= n /\ n <= NumericRange[key][2])
    \/ key = "log_level" /\ value.text \notin LogLevels
C34_OutOfRangeRejected ==
    [][last'.op = "update_settings" =>
          /\ (\E i \in 1..Len(last'.result) : OutsideRange(last'.result[i][1], last'.result[i][2])) =>
                 last'.code = 400
          /\ last'.code # 200 => settings' = settings]_vars
====
